---- MODULE Spec2Model ----
(***************************************************************************)
(* A model of goja's object model: baseObject's property protocol          *)
(* (object.go), its prototype link and enumeration, and the weak-reference *)
(* registry with the WeakMap built on it (builtin_weakmap.go).             *)
(***************************************************************************)
EXTENDS Integers, Sequences, FiniteSets, TLC

VARIABLES
    prototype,   \* baseObject.prototype : object -> object or "nil"
    extensible,  \* baseObject.extensible
    values,      \* baseObject.values    : object -> name -> stored value
    propNames,   \* baseObject.propNames : object -> sequence of names
    symValues,   \* baseObject.symValues : object -> symbol -> stored value
    last,        \* history: the recorded operation of the run, with its outcome
    iter,        \* the enumeration sequence in use (propFilterIter), with its history
    weakColls,   \* Object.weakColls : key object -> registry address or "nil"
    reach,       \* whether the program still holds the key object
    regs,        \* the weakCollections records, by address
    data,        \* weakMap.data : map -> registry address -> value or "nil"
    mu,          \* weakMap's mutex : map -> its holder or "nil"
    pc,          \* where each thread is in its operation
    loc,         \* each thread's operation, arguments and local variables
    gh,          \* history of the threads' completed operations
    ctor         \* the call of builtin_newWeakMap in progress, with its outcome

ovars == <<prototype, extensible, values, propNames, symValues>>
wvars == <<weakColls, reach, regs, data, mu, pc, loc, gh, ctor>>
xvars == <<iter, weakColls, reach, regs, data, mu, pc, loc, gh, ctor>>
vars == <<prototype, extensible, values, propNames, symValues, last, iter,
          weakColls, reach, regs, data, mu, pc, loc, gh, ctor>>

----------------------------------------------------------------------------
(* Values.  Go's nil is "nil"; the JavaScript values undefined and null    *)
(* are "undefined" and "null".                                             *)

Nil == "nil"
Undefined == "undefined"
Null == "null"
Objs == {"o1", "o2", "o3"}
Prims == {"v1", "v2"}
Funcs == {"f1"}
ProtoName == "__proto__"
Names == {"a", "b", "c", ProtoName}
Syms == {"@s"}

FLAG_NOT_SET == "NOT_SET"
FLAG_FALSE == "FALSE"
FLAG_TRUE == "TRUE"
Flags == {FLAG_NOT_SET, FLAG_FALSE, FLAG_TRUE}
FlagBool(f) == f = FLAG_TRUE

(* A stored value: absent ("none"), a plain Value ("plain"), or a          *)
(* *valueProperty ("prop").  One record shape for the three.               *)
Stored(k, v, w, e, c, acc, g, s) ==
    [kind |-> k, value |-> v, writable |-> w, enumerable |-> e,
     configurable |-> c, accessor |-> acc, getterFunc |-> g, setterFunc |-> s]
Absent == Stored("none", Nil, FALSE, FALSE, FALSE, FALSE, Nil, Nil)
Plain(v) == Stored("plain", v, TRUE, TRUE, TRUE, FALSE, Nil, Nil)
ZeroProp == Stored("prop", Nil, FALSE, FALSE, FALSE, FALSE, Nil, Nil)

PropertyDescriptor(v, w, e, c, g, s) ==
    [Value |-> v, Writable |-> w, Enumerable |-> e, Configurable |-> c,
     Getter |-> g, Setter |-> s]
NoDescr == PropertyDescriptor(Nil, FLAG_NOT_SET, FLAG_NOT_SET, FLAG_NOT_SET, Nil, Nil)

(* The descriptors a caller can build: a descriptor that names an accessor *)
(* field together with value or writable is refused before it gets here.   *)
DataDescrs ==
    {PropertyDescriptor(v, w, e, c, Nil, Nil) :
        v \in {Nil} \cup Prims, w \in Flags, e \in Flags, c \in Flags}
AccessorDescrs ==
    {PropertyDescriptor(Nil, FLAG_NOT_SET, e, c, g, s) :
        e \in Flags, c \in Flags,
        g \in {Nil, Undefined} \cup Funcs, s \in {Nil, Undefined} \cup Funcs}
    \ DataDescrs
Descrs == DataDescrs \cup AccessorDescrs

----------------------------------------------------------------------------
(* Helpers of the runtime that object.go calls.                            *)

SameAs(a, b) == a = b

isWritable(p) == IF p.accessor THEN p.setterFunc # Nil ELSE p.writable

propGetter(v) == IF v \in Funcs THEN v ELSE Nil
propSetter(v) == IF v \in Funcs THEN v ELSE Nil

typeErrorResult(throw) == IF throw THEN "TypeError" ELSE "rejected"

NoCall == [fn |-> Nil, this |-> Nil, arg |-> Nil]
Call(f, this, arg) == [fn |-> f, this |-> this, arg |-> arg]

(* The fields of one object, as a record.                                  *)
ObjState(o) ==
    IF o \in Objs
    THEN [vals |-> values[o], names |-> propNames[o], syms |-> symValues[o],
          proto |-> prototype[o], ext |-> extensible[o]]
    ELSE [vals |-> <<>>, names |-> <<>>, syms |-> <<>>, proto |-> Nil, ext |-> FALSE]

(* A recorded operation: its arguments, what it returned (ret), the error  *)
(* it raised or the rejection it reported (err), the accessor function it  *)
(* called (call), and the object's state before the operation (pre).       *)
Op(name, o, key, val, descr, throw, ret, err, call) ==
    [op |-> name, obj |-> o, key |-> key, val |-> val, descr |-> descr,
     throw |-> throw, ret |-> ret, err |-> err, call |-> call,
     pre |-> ObjState(o)]
NoOp == Op("init", Nil, Nil, Nil, NoDescr, FALSE, Nil, "none", NoCall)

(* last is a history variable.  A step either leaves no record or records  *)
(* its operation, arguments and outcome; a recorded operation is the last  *)
(* one of its run, so every operation is recorded from every state a run   *)
(* of unrecorded operations reaches.                                       *)
Running == last = NoOp
Record(op) == \E rec \in BOOLEAN : last' = IF rec THEN op ELSE NoOp

(* The index of the first x in s, 0 when there is none.                    *)
IndexOf(s, x) ==
    IF \E i \in 1..Len(s) : s[i] = x
    THEN CHOOSE i \in 1..Len(s) : s[i] = x /\ \A j \in 1..(i - 1) : s[j] # x
    ELSE 0
RemoveAt(s, i) == SubSeq(s, 1, i - 1) \o SubSeq(s, i + 1, Len(s))
Range(s) == {s[i] : i \in 1..Len(s)}
NoDup(s) == \A i, j \in 1..Len(s) : s[i] = s[j] => i = j

IsSym(n) == n \in Syms

----------------------------------------------------------------------------
(* Property lookup.                                                        *)

getOwnPropStr(o, name) ==
    LET v == values[o][name]
    IN IF v.kind = "none" /\ name = ProtoName THEN Plain(prototype[o]) ELSE v

RECURSIVE getPropStr(_, _)
getPropStr(o, name) ==
    LET val == getOwnPropStr(o, name)
    IN IF val.kind # "none" THEN val
       ELSE IF prototype[o] # Nil THEN getPropStr(prototype[o], name)
       ELSE Absent

RECURSIVE getPropSym(_, _)
getPropSym(o, s) ==
    LET val == symValues[o][s]
    IN IF val.kind # "none" THEN val
       ELSE IF prototype[o] # Nil THEN getPropSym(prototype[o], s)
       ELSE Absent

getProp(o, n) == IF IsSym(n) THEN getPropSym(o, n) ELSE getPropStr(o, n)

getOwnProp(o, n) == IF IsSym(n) THEN symValues[o][n] ELSE getOwnPropStr(o, n)

(* valueProperty.set: a data property takes the value, an accessor has its *)
(* setter called with the receiver.                                        *)
propSet(p, this, v) ==
    IF p.accessor
    THEN [prop |-> p, call |-> Call(p.setterFunc, this, v)]
    ELSE [prop |-> [p EXCEPT !.value = v], call |-> NoCall]

(* valueProperty.get: a data property gives its value, an accessor has its *)
(* getter called with the receiver (the result is then the getter's), and  *)
(* gives undefined when it has no getter.                                  *)
propGet(p, this) ==
    IF p.accessor
    THEN IF p.getterFunc = Nil THEN [ret |-> Undefined, call |-> NoCall]
         ELSE [ret |-> "returned", call |-> Call(p.getterFunc, this, Nil)]
    ELSE [ret |-> p.value, call |-> NoCall]

RECURSIVE Holder(_, _)
(* The object whose stored value getPropStr returns.                       *)
Holder(o, name) ==
    IF getOwnPropStr(o, name).kind # "none" \/ prototype[o] = Nil THEN o
    ELSE Holder(prototype[o], name)

(* The bug of a get that hands the getter the object that holds it.        *)
getStr_HolderAsReceiver(o, name) ==
    LET p == getPropStr(o, name)
    IN IF p.kind = "prop" THEN propGet(p, Holder(o, name))
       ELSE [ret |-> p.value, call |-> NoCall]

getStr(o, name) ==
    LET p == getPropStr(o, name)
    IN IF p.kind = "prop" THEN propGet(p, o)
       ELSE [ret |-> p.value, call |-> NoCall]

getSym(o, s) ==
    LET p == getPropSym(o, s)
    IN IF p.kind = "prop" THEN propGet(p, o)
       ELSE [ret |-> p.value, call |-> NoCall]

get(o, n) == IF IsSym(n) THEN getSym(o, n) ELSE getStr(o, n)

----------------------------------------------------------------------------
(* delete                                                                  *)

checkDeleteProp(prop, throw) == prop.configurable

checkDelete(val, throw) ==
    IF val.kind = "prop" THEN checkDeleteProp(val, throw) ELSE TRUE

(* The bug of a _delete that leaves the name in the key order.             *)
_delete_KeepsName(o, name) ==
    [vals |-> [values[o] EXCEPT ![name] = Absent], names |-> propNames[o]]

_delete(o, name) ==
    LET i == IndexOf(propNames[o], name)
    IN [vals |-> [values[o] EXCEPT ![name] = Absent],
        names |-> IF i = 0 THEN propNames[o] ELSE RemoveAt(propNames[o], i)]

deleteStr(o, name, throw) ==
    LET val == values[o][name]
        same == [vals |-> values[o], names |-> propNames[o]]
    IN IF val.kind # "none"
       THEN IF ~checkDelete(val, throw)
            THEN [st |-> same, ret |-> IF throw THEN Nil ELSE "false",
                  err |-> typeErrorResult(throw)]
            ELSE [st |-> _delete(o, name), ret |-> "true", err |-> "none"]
       ELSE [st |-> same, ret |-> "true", err |-> "none"]

deleteSym(o, s, throw) ==
    LET val == symValues[o][s]
    IN IF val.kind # "none"
       THEN IF ~checkDelete(val, throw)
            THEN [syms |-> symValues[o], ret |-> IF throw THEN Nil ELSE "false",
                  err |-> typeErrorResult(throw)]
            ELSE [syms |-> [symValues[o] EXCEPT ![s] = Absent], ret |-> "true",
                  err |-> "none"]
       ELSE [syms |-> symValues[o], ret |-> "true", err |-> "none"]

Delete(o, n, throw) ==
    /\ Running
    /\ IF IsSym(n)
       THEN LET r == deleteSym(o, n, throw)
            IN /\ symValues' = [symValues EXCEPT ![o] = r.syms]
               /\ UNCHANGED <<values, propNames>>
               /\ Record(Op("delete", o, n, Nil, NoDescr, throw, r.ret, r.err, NoCall))
       ELSE LET r == deleteStr(o, n, throw)
            IN /\ values' = [values EXCEPT ![o] = r.st.vals]
               /\ propNames' = [propNames EXCEPT ![o] = r.st.names]
               /\ UNCHANGED symValues
               /\ Record(Op("delete", o, n, Nil, NoDescr, throw, r.ret, r.err, NoCall))
    /\ UNCHANGED <<prototype, extensible>>

----------------------------------------------------------------------------
(* The prototype link                                                      *)

RECURSIVE OnChain(_, _)
(* The loop of setProto: whether walking from p by proto() meets o.        *)
OnChain(p, o) ==
    IF p = Nil THEN FALSE
    ELSE IF SameAs(p, o) THEN TRUE
    ELSE OnChain(prototype[p], o)

ErrNotExtensible == "TypeError: not extensible"
ErrCyclic == "TypeError: Cyclic __proto__ value"

(* setProto without the walk that looks for the object on the new chain.  *)
setProto_NoCycleCheck(o, proto) ==
    LET current == prototype[o]
    IN IF SameAs(current, proto) THEN [proto |-> current, ex |-> Nil]
       ELSE IF ~extensible[o] THEN [proto |-> current, ex |-> ErrNotExtensible]
       ELSE [proto |-> proto, ex |-> Nil]

setProto(o, proto) ==
    LET current == prototype[o]
    IN IF SameAs(current, proto) THEN [proto |-> current, ex |-> Nil]
       ELSE IF ~extensible[o] THEN [proto |-> current, ex |-> ErrNotExtensible]
       ELSE IF OnChain(proto, o) THEN [proto |-> current, ex |-> ErrCyclic]
       ELSE [proto |-> proto, ex |-> Nil]

SetProto(o, proto) ==
    /\ Running
    /\ \E r \in {setProto(o, proto)} :
       /\ prototype' = [prototype EXCEPT ![o] = r.proto]
       /\ Record(Op("setProto", o, Nil, proto, NoDescr, FALSE, r.ex,
                     IF r.ex = Nil THEN "none" ELSE r.ex, NoCall))
       /\ UNCHANGED <<extensible, values, propNames, symValues>>

preventExtensions(o) == FALSE

PreventExtensions(o) ==
    /\ Running
    /\ extensible' = [extensible EXCEPT ![o] = preventExtensions(o)]
    /\ Record(Op("preventExtensions", o, Nil, Nil, NoDescr, FALSE, Nil, "none", NoCall))
    /\ UNCHANGED <<prototype, values, propNames, symValues>>

----------------------------------------------------------------------------
(* put                                                                     *)

PutOut(vals, names, syms, proto, err, call) ==
    [vals |-> vals, names |-> names, syms |-> syms, proto |-> proto,
     err |-> err, call |-> call]

(* putInherited that stores over an inherited read-only data property.    *)
putInherited_IgnoresReadOnly(o, pprop, throw) ==
    IF pprop.kind # "none"
    THEN IF pprop.kind = "prop" /\ pprop.accessor
         THEN IF ~isWritable(pprop) THEN "reject" ELSE "setter"
         ELSE "store"
    ELSE IF ~extensible[o] THEN "reject"
    ELSE "store"

(* What put does once the own lookup and the pseudo-key are out of the way *)
(* (object.go 421-445, 462-488): pprop is what the prototype chain holds.  *)
putInherited(o, pprop, throw) ==
    IF pprop.kind # "none"
    THEN IF pprop.kind = "prop"
         THEN IF ~isWritable(pprop) THEN "reject"
              ELSE IF pprop.accessor THEN "setter"
              ELSE "store"
         ELSE "store"
    ELSE IF ~extensible[o] THEN "reject"
    ELSE "store"

(* The bug of a put that stores an object under the pseudo-key.           *)
putStr_StoresPseudoKey(o, name, val, throw) ==
    LET v == values[o][name]
        same(err, call) ==
            PutOut(values[o], propNames[o], symValues[o], prototype[o], err, call)
    IN IF v.kind # "none"
       THEN IF v.kind = "prop"
            THEN IF ~isWritable(v) THEN same(typeErrorResult(throw), NoCall)
                 ELSE LET r == propSet(v, o, val)
                      IN PutOut([values[o] EXCEPT ![name] = r.prop], propNames[o],
                                symValues[o], prototype[o], "none", r.call)
            ELSE PutOut([values[o] EXCEPT ![name] = Plain(val)], propNames[o],
                        symValues[o], prototype[o], "none", NoCall)
       ELSE IF name = ProtoName /\ val \notin Objs
       THEN IF val # Null /\ val \notin Objs THEN same("none", NoCall)
            ELSE LET ex == setProto(o, IF val = Null THEN Nil ELSE val)
                 IN PutOut(values[o], propNames[o], symValues[o], ex.proto,
                           IF ex.ex = Nil THEN "none" ELSE ex.ex, NoCall)
       ELSE LET pprop == IF prototype[o] # Nil THEN getPropStr(prototype[o], name)
                         ELSE Absent
                how == putInherited(o, pprop, throw)
            IN IF how = "reject" THEN same(typeErrorResult(throw), NoCall)
               ELSE IF how = "setter"
               THEN same("none", propSet(pprop, o, val).call)
               ELSE PutOut([values[o] EXCEPT ![name] = Plain(val)],
                           Append(propNames[o], name), symValues[o], prototype[o],
                           "none", NoCall)

putStr(o, name, val, throw) ==
    LET v == values[o][name]
        same(err, call) ==
            PutOut(values[o], propNames[o], symValues[o], prototype[o], err, call)
    IN IF v.kind # "none"
       THEN IF v.kind = "prop"
            THEN IF ~isWritable(v) THEN same(typeErrorResult(throw), NoCall)
                 ELSE LET r == propSet(v, o, val)
                      IN PutOut([values[o] EXCEPT ![name] = r.prop], propNames[o],
                                symValues[o], prototype[o], "none", r.call)
            ELSE PutOut([values[o] EXCEPT ![name] = Plain(val)], propNames[o],
                        symValues[o], prototype[o], "none", NoCall)
       ELSE IF name = ProtoName
       THEN IF val # Null /\ val \notin Objs THEN same("none", NoCall)
            ELSE LET ex == setProto(o, IF val = Null THEN Nil ELSE val)
                 IN PutOut(values[o], propNames[o], symValues[o], ex.proto,
                           IF ex.ex = Nil THEN "none" ELSE ex.ex, NoCall)
       ELSE LET pprop == IF prototype[o] # Nil THEN getPropStr(prototype[o], name)
                         ELSE Absent
                how == putInherited(o, pprop, throw)
            IN IF how = "reject" THEN same(typeErrorResult(throw), NoCall)
               ELSE IF how = "setter"
               THEN same("none", propSet(pprop, o, val).call)
               ELSE PutOut([values[o] EXCEPT ![name] = Plain(val)],
                           Append(propNames[o], name), symValues[o], prototype[o],
                           "none", NoCall)

putSym(o, s, val, throw) ==
    LET v == symValues[o][s]
        same(err, call) ==
            PutOut(values[o], propNames[o], symValues[o], prototype[o], err, call)
    IN IF v.kind # "none"
       THEN IF v.kind = "prop"
            THEN IF ~isWritable(v) THEN same(typeErrorResult(throw), NoCall)
                 ELSE LET r == propSet(v, o, val)
                      IN PutOut(values[o], propNames[o],
                                [symValues[o] EXCEPT ![s] = r.prop], prototype[o],
                                "none", r.call)
            ELSE PutOut(values[o], propNames[o],
                        [symValues[o] EXCEPT ![s] = Plain(val)], prototype[o],
                        "none", NoCall)
       ELSE LET pprop == IF prototype[o] # Nil THEN getProp(prototype[o], s)
                         ELSE Absent
                how == putInherited(o, pprop, throw)
            IN IF how = "reject" THEN same(typeErrorResult(throw), NoCall)
               ELSE IF how = "setter"
               THEN same("none", propSet(pprop, o, val).call)
               ELSE PutOut(values[o], propNames[o],
                           [symValues[o] EXCEPT ![s] = Plain(val)], prototype[o],
                           "none", NoCall)

put(o, n, val, throw) ==
    IF IsSym(n) THEN putSym(o, n, val, throw) ELSE putStr(o, n, val, throw)

Put(o, n, val, throw) ==
    /\ Running
    /\ \E r \in {put(o, n, val, throw)} :
       /\ values' = [values EXCEPT ![o] = r.vals]
       /\ propNames' = [propNames EXCEPT ![o] = r.names]
       /\ symValues' = [symValues EXCEPT ![o] = r.syms]
       /\ prototype' = [prototype EXCEPT ![o] = r.proto]
       /\ Record(Op("put", o, n, val, NoDescr, throw, Nil, r.err, r.call))
       /\ UNCHANGED extensible

----------------------------------------------------------------------------
(* defineOwnProperty                                                       *)

(* The valueProperty the checks run against (object.go 557-573).           *)
existingProp(existingValue) ==
    IF existingValue.kind = "none" THEN ZeroProp
    ELSE IF existingValue.kind = "prop" THEN existingValue
    ELSE Stored("prop", existingValue.value, TRUE, TRUE, TRUE, FALSE, Nil, Nil)

(* rejectsRedefine without the comparison of the enumerable attribute.    *)
rejectsRedefine_NoEnumerableCheck(existing, descr) ==
    LET getterObj == IF descr.Getter \in Funcs THEN descr.Getter ELSE Nil
        setterObj == IF descr.Setter \in Funcs THEN descr.Setter ELSE Nil
    IN \/ ~existing.configurable /\ descr.Configurable = FLAG_TRUE
       \/ IF \/ existing.accessor /\ descr.Value # Nil
             \/ ~existing.accessor /\ (getterObj # Nil \/ setterObj # Nil)
          THEN ~existing.configurable
          ELSE IF ~existing.accessor
          THEN /\ ~existing.configurable
               /\ ~existing.writable
               /\ \/ descr.Writable = FLAG_TRUE
                  \/ descr.Value # Nil /\ ~SameAs(descr.Value, existing.value)
          ELSE /\ ~existing.configurable
               /\ \/ descr.Getter # Nil /\ existing.getterFunc # getterObj
                  \/ descr.Setter # Nil /\ existing.setterFunc # setterObj

(* rejectsRedefine without the comparison of the value of a non-writable  *)
(* property.                                                               *)
rejectsRedefine_NoValueCheck(existing, descr) ==
    LET getterObj == IF descr.Getter \in Funcs THEN descr.Getter ELSE Nil
        setterObj == IF descr.Setter \in Funcs THEN descr.Setter ELSE Nil
    IN \/ ~existing.configurable /\ descr.Configurable = FLAG_TRUE
       \/ /\ ~existing.configurable
          /\ descr.Enumerable # FLAG_NOT_SET
          /\ FlagBool(descr.Enumerable) # existing.enumerable
       \/ IF \/ existing.accessor /\ descr.Value # Nil
             \/ ~existing.accessor /\ (getterObj # Nil \/ setterObj # Nil)
          THEN ~existing.configurable
          ELSE IF ~existing.accessor
          THEN /\ ~existing.configurable
               /\ ~existing.writable
               /\ descr.Writable = FLAG_TRUE
          ELSE /\ ~existing.configurable
               /\ \/ descr.Getter # Nil /\ existing.getterFunc # getterObj
                  \/ descr.Setter # Nil /\ existing.setterFunc # setterObj

(* The checks that end in Reject (object.go 575-604).                      *)
rejectsRedefine(existing, descr) ==
    LET getterObj == IF descr.Getter \in Funcs THEN descr.Getter ELSE Nil
        setterObj == IF descr.Setter \in Funcs THEN descr.Setter ELSE Nil
    IN \/ ~existing.configurable /\ descr.Configurable = FLAG_TRUE
       \/ /\ ~existing.configurable
          /\ descr.Enumerable # FLAG_NOT_SET
          /\ FlagBool(descr.Enumerable) # existing.enumerable
       \/ IF \/ existing.accessor /\ descr.Value # Nil
             \/ ~existing.accessor /\ (getterObj # Nil \/ setterObj # Nil)
          THEN ~existing.configurable
          ELSE IF ~existing.accessor
          THEN /\ ~existing.configurable
               /\ ~existing.writable
               /\ \/ descr.Writable = FLAG_TRUE
                  \/ descr.Value # Nil /\ ~SameAs(descr.Value, existing.value)
          ELSE /\ ~existing.configurable
               /\ \/ descr.Getter # Nil /\ existing.getterFunc # getterObj
                  \/ descr.Setter # Nil /\ existing.setterFunc # setterObj

(* The assignments of object.go 611-645 to the existing valueProperty.     *)
applyDescr(existing, descr) ==
    LET e1 == IF descr.Writable # FLAG_NOT_SET
              THEN [existing EXCEPT !.writable = FlagBool(descr.Writable)]
              ELSE existing
        e2 == IF descr.Enumerable # FLAG_NOT_SET
              THEN [e1 EXCEPT !.enumerable = FlagBool(descr.Enumerable)]
              ELSE e1
        e3 == IF descr.Configurable # FLAG_NOT_SET
              THEN [e2 EXCEPT !.configurable = FlagBool(descr.Configurable)]
              ELSE e2
        e4 == IF descr.Value # Nil
              THEN [e3 EXCEPT !.value = descr.Value, !.getterFunc = Nil,
                              !.setterFunc = Nil]
              ELSE e3
        e5 == IF descr.Value # Nil \/ descr.Writable # FLAG_NOT_SET
              THEN [e4 EXCEPT !.accessor = FALSE]
              ELSE e4
        e6 == IF descr.Getter # Nil
              THEN [e5 EXCEPT !.getterFunc = propGetter(descr.Getter),
                              !.value = Nil, !.accessor = TRUE]
              ELSE e5
        e7 == IF descr.Setter # Nil
              THEN [e6 EXCEPT !.setterFunc = propSetter(descr.Setter),
                              !.value = Nil, !.accessor = TRUE]
              ELSE e6
    IN IF ~e7.accessor /\ e7.value = Nil THEN [e7 EXCEPT !.value = Undefined]
       ELSE e7

_defineOwnProperty(o, existingValue, descr, throw) ==
    LET existing == existingProp(existingValue)
        rejected == [val |-> Absent, ok |-> FALSE, err |-> typeErrorResult(throw)]
    IN IF existingValue.kind = "none" /\ ~extensible[o] THEN rejected
       ELSE IF existingValue.kind # "none" /\ rejectsRedefine(existing, descr)
       THEN rejected
       ELSE IF /\ descr.Writable = FLAG_TRUE
               /\ descr.Enumerable = FLAG_TRUE
               /\ descr.Configurable = FLAG_TRUE
               /\ descr.Value # Nil
       THEN [val |-> Plain(descr.Value), ok |-> TRUE, err |-> "none"]
       ELSE [val |-> applyDescr(existing, descr), ok |-> TRUE, err |-> "none"]

(* The bug of a defineOwnProperty that assigns the requested attributes to *)
(* the stored property before the checks that reject.                      *)
defineOwnProperty_AssignsFirst(o, n, descr, throw) ==
    IF IsSym(n)
    THEN LET r == _defineOwnProperty(o, symValues[o][n], descr, throw)
         IN [vals |-> values[o], names |-> propNames[o],
             syms |-> IF r.ok THEN [symValues[o] EXCEPT ![n] = r.val]
                      ELSE symValues[o],
             ok |-> r.ok, err |-> r.err]
    ELSE LET existingVal == values[o][n]
             r == _defineOwnProperty(o, existingVal, descr, throw)
         IN [vals |-> IF r.ok THEN [values[o] EXCEPT ![n] = r.val]
                      ELSE IF existingVal.kind = "prop"
                      THEN [values[o] EXCEPT ![n] = applyDescr(existingVal, descr)]
                      ELSE values[o],
             names |-> IF r.ok /\ existingVal.kind = "none"
                       THEN Append(propNames[o], n) ELSE propNames[o],
             syms |-> symValues[o], ok |-> r.ok, err |-> r.err]

(* The bug of a defineOwnProperty that appends the name on every success.  *)
defineOwnProperty_AlwaysAppends(o, n, descr, throw) ==
    IF IsSym(n)
    THEN LET r == _defineOwnProperty(o, symValues[o][n], descr, throw)
         IN [vals |-> values[o], names |-> propNames[o],
             syms |-> IF r.ok THEN [symValues[o] EXCEPT ![n] = r.val]
                      ELSE symValues[o],
             ok |-> r.ok, err |-> r.err]
    ELSE LET existingVal == values[o][n]
             r == _defineOwnProperty(o, existingVal, descr, throw)
         IN [vals |-> IF r.ok THEN [values[o] EXCEPT ![n] = r.val] ELSE values[o],
             names |-> IF r.ok THEN Append(propNames[o], n) ELSE propNames[o],
             syms |-> symValues[o], ok |-> r.ok, err |-> r.err]

defineOwnProperty(o, n, descr, throw) ==
    IF IsSym(n)
    THEN LET r == _defineOwnProperty(o, symValues[o][n], descr, throw)
         IN [vals |-> values[o], names |-> propNames[o],
             syms |-> IF r.ok THEN [symValues[o] EXCEPT ![n] = r.val]
                      ELSE symValues[o],
             ok |-> r.ok, err |-> r.err]
    ELSE LET existingVal == values[o][n]
             r == _defineOwnProperty(o, existingVal, descr, throw)
         IN [vals |-> IF r.ok THEN [values[o] EXCEPT ![n] = r.val] ELSE values[o],
             names |-> IF r.ok /\ existingVal.kind = "none"
                       THEN Append(propNames[o], n) ELSE propNames[o],
             syms |-> symValues[o], ok |-> r.ok, err |-> r.err]

DefineOwnProperty(o, n, descr, throw) ==
    /\ Running
    /\ \E r \in {defineOwnProperty(o, n, descr, throw)} :
       /\ values' = [values EXCEPT ![o] = r.vals]
       /\ propNames' = [propNames EXCEPT ![o] = r.names]
       /\ symValues' = [symValues EXCEPT ![o] = r.syms]
       /\ Record(Op("defineOwnProperty", o, n, Nil, descr, throw,
                     IF r.ok THEN "true" ELSE IF throw THEN Nil ELSE "false",
                     r.err, NoCall))
       /\ UNCHANGED <<prototype, extensible>>

(* _put, valueProp and _putProp (object.go:680-704).                       *)
_put(o, name, v) ==
    [vals |-> [values[o] EXCEPT ![name] = v],
     names |-> IF values[o][name].kind = "none"
               THEN Append(propNames[o], name) ELSE propNames[o]]

valueProp(value, writable, enumerable, configurable) ==
    IF writable /\ enumerable /\ configurable THEN Plain(value)
    ELSE Stored("prop", value, writable, enumerable, configurable, FALSE, Nil, Nil)

_putProp(o, name, value, writable, enumerable, configurable) ==
    _put(o, name, valueProp(value, writable, enumerable, configurable))

PutProp(o, name, value, writable, enumerable, configurable) ==
    /\ Running
    /\ \E r \in {_putProp(o, name, value, writable, enumerable, configurable)} :
       /\ values' = [values EXCEPT ![o] = r.vals]
       /\ propNames' = [propNames EXCEPT ![o] = r.names]
       /\ Record(Op("_putProp", o, name, value, NoDescr, FALSE, Nil, "none", NoCall))
    /\ UNCHANGED <<prototype, extensible, symValues>>

----------------------------------------------------------------------------
(* getOwnPropertyDescriptor                                                *)

(* The descriptor object built from a stored value (object.go 510-549).    *)
reify(desc) ==
    LET p == existingProp(desc)
    IN IF ~p.accessor
       THEN [value |-> p.value, writable |-> p.writable, get |-> Nil, set |-> Nil,
             enumerable |-> p.enumerable, configurable |-> p.configurable]
       ELSE [value |-> Nil, writable |-> FALSE,
             get |-> IF p.getterFunc # Nil THEN p.getterFunc ELSE Undefined,
             set |-> IF p.setterFunc # Nil THEN p.setterFunc ELSE Undefined,
             enumerable |-> p.enumerable, configurable |-> p.configurable]

getOwnPropertyDescriptor(o, name) ==
    LET desc == getOwnProp(o, name)
    IN IF desc.kind = "none" THEN Undefined ELSE reify(desc)

----------------------------------------------------------------------------
(* Enumeration (object.go:825-911).  An objectPropIter holds its object,   *)
(* a copy of the object's propNames and a cursor; a propFilterIter wraps   *)
(* it with the set of names already seen.  The nil iterNextFunc is NilIter.*)

NilIter == [o |-> Nil, propNames |-> <<>>, recursive |-> FALSE, idx |-> 0]
NoItem == [name |-> Nil, value |-> Absent]

_enumerate(o, recursive) ==
    [o |-> o, propNames |-> propNames[o], recursive |-> recursive, idx |-> 0]

(* The bug of walking the live propNames instead of the copy.              *)
RECURSIVE objectPropIter_next_LiveNames(_)
objectPropIter_next_LiveNames(i) ==
    IF i.idx < Len(propNames[i.o])
    THEN LET name == propNames[i.o][i.idx + 1]
             prop == values[i.o][name]
             j == [i EXCEPT !.idx = i.idx + 1]
         IN  IF prop.kind # "none"
             THEN [item |-> [name |-> name, value |-> prop], next |-> j]
             ELSE objectPropIter_next_LiveNames(j)
    ELSE IF i.recursive /\ prototype[i.o] # Nil
         THEN objectPropIter_next_LiveNames(_enumerate(prototype[i.o], i.recursive))
         ELSE [item |-> NoItem, next |-> NilIter]

RECURSIVE objectPropIter_next(_)
objectPropIter_next(i) ==
    IF i.idx < Len(i.propNames)
    THEN LET name == i.propNames[i.idx + 1]
             prop == values[i.o][name]
             j == [i EXCEPT !.idx = i.idx + 1]
         IN  IF prop.kind # "none"
             THEN [item |-> [name |-> name, value |-> prop], next |-> j]
             ELSE objectPropIter_next(j)
    ELSE IF i.recursive /\ prototype[i.o] # Nil
         THEN objectPropIter_next(_enumerate(prototype[i.o], i.recursive))
         ELSE [item |-> NoItem, next |-> NilIter]

(* The bug of a filter that forgets the names it has seen.                 *)
RECURSIVE propFilterIter_next_NoSeen(_)
propFilterIter_next_NoSeen(f) ==
    LET r == objectPropIter_next(f.wrapped) IN
    IF r.next = NilIter
    THEN [item |-> NoItem, f |-> [f EXCEPT !.wrapped = NilIter]]
    ELSE LET g == [f EXCEPT !.wrapped = r.next] IN
         IF ~f.all /\ r.item.value.kind = "prop" /\ ~r.item.value.enumerable
         THEN propFilterIter_next_NoSeen(g)
         ELSE [item |-> r.item, f |-> g]

(* The bug of a filter that marks a name as seen only when it yields it.   *)
RECURSIVE propFilterIter_next_SeenWhenYielded(_)
propFilterIter_next_SeenWhenYielded(f) ==
    LET r == objectPropIter_next(f.wrapped) IN
    IF r.next = NilIter
    THEN [item |-> NoItem, f |-> [f EXCEPT !.wrapped = NilIter]]
    ELSE IF r.item.name \notin f.seen
         THEN IF ~f.all /\ r.item.value.kind = "prop"
                 /\ ~r.item.value.enumerable
              THEN propFilterIter_next_SeenWhenYielded([f EXCEPT !.wrapped = r.next])
              ELSE [item |-> r.item,
                    f |-> [f EXCEPT !.wrapped = r.next,
                                    !.seen = @ \cup {r.item.name}]]
         ELSE propFilterIter_next_SeenWhenYielded([f EXCEPT !.wrapped = r.next])

RECURSIVE propFilterIter_next(_)
propFilterIter_next(f) ==
    LET r == objectPropIter_next(f.wrapped) IN
    IF r.next = NilIter
    THEN [item |-> NoItem, f |-> [f EXCEPT !.wrapped = NilIter]]
    ELSE IF r.item.name \notin f.seen
         THEN LET g == [f EXCEPT !.wrapped = r.next,
                                 !.seen = @ \cup {r.item.name}]
              IN  IF ~f.all /\ r.item.value.kind = "prop"
                     /\ ~r.item.value.enumerable
                  THEN propFilterIter_next(g)
                  ELSE [item |-> r.item, f |-> g]
         ELSE propFilterIter_next([f EXCEPT !.wrapped = r.next])

enumerate(o, all, recursive) ==
    [wrapped |-> _enumerate(o, recursive), all |-> all, seen |-> {}]

(* The names a sequence yields when it is consumed to its end at once.     *)
RECURSIVE Drain(_)
Drain(f) ==
    LET r == propFilterIter_next(f) IN
    IF r.f.wrapped = NilIter THEN <<>> ELSE <<r.item.name>> \o Drain(r.f)

(* The sequence in use.  f is the propFilterIter; the rest is history:    *)
(* the object enumerate was called on (root), its key list at the call     *)
(* (snap), what the whole sequence would have yielded at the call          *)
(* (expect), the names yielded so far (out) with the object each came from *)
(* (from), and how often an object changed while the sequence was in use.  *)
NoEnum ==
    [st |-> "none", f |-> [wrapped |-> NilIter, all |-> FALSE, seen |-> {}],
     root |-> Nil, snap |-> <<>>, expect |-> <<>>, out |-> <<>>, from |-> <<>>,
     muts |-> 0]

Present(o, n) == values[o][n].kind # "none"
Shown(o, n, all) == Present(o, n) /\ (all \/ values[o][n].enumerable)

(* What the specification says a sequence lists: the own keys in order,    *)
(* then each ancestor's, without the names an earlier object holds.        *)
RECURSIVE Listing(_, _, _, _)
Listing(o, all, recursive, hidden) ==
    LET Listed(n) == Shown(o, n, all) /\ n \notin hidden IN
    SelectSeq(propNames[o], Listed)
      \o (IF recursive /\ prototype[o] # Nil
          THEN Listing(prototype[o], all, recursive,
                       hidden \cup {n \in Names : Present(o, n)})
          ELSE <<>>)

Enumerate(o, all, recursive) ==
    /\ Running
    /\ iter.st = "none"
    /\ iter' = [st |-> "active", f |-> enumerate(o, all, recursive),
                root |-> o, snap |-> propNames[o],
                expect |-> Listing(o, all, recursive, {}),
                out |-> <<>>, from |-> <<>>, muts |-> 0]
    /\ UNCHANGED <<ovars, last, wvars>>

(* One call of the sequence's next function.                               *)
IterNext ==
    /\ Running
    /\ iter.st = "active"
    /\ \E r \in {propFilterIter_next(iter.f)} :
          iter' = IF r.f.wrapped = NilIter
                  THEN [iter EXCEPT !.st = "done", !.f = r.f]
                  ELSE [iter EXCEPT !.f = r.f,
                                    !.out = Append(@, r.item.name),
                                    !.from = Append(@, r.f.wrapped.o)]
    /\ UNCHANGED <<ovars, last, wvars>>

----------------------------------------------------------------------------
(* The weak-reference registry (object.go:35-81, 953-960) and the WeakMap  *)
(* (builtin_weakmap.go).  A weakCollections record lives at an address,    *)
(* which is its id; the slice colls is its elements and its capacity.      *)

KeyObjs == {"k1", "k2"}
Maps == {"m1", "m2"}
Addrs == {"r1", "r2"}
Threads == {"t1", "t2"}
Finalizer == "finalizer"

(* A record is free memory, live, being finalized (todo: the collections   *)
(* the finalizer's loop has still to visit) or finalized and not yet freed.*)
FreeReg == [st |-> "free", colls |-> <<>>, cap |-> 0, todo |-> <<>>]
NewReg == [st |-> "live", colls |-> <<>>, cap |-> 0, todo |-> <<>>]

NoLoc == [op |-> Nil, m |-> Nil, key |-> Nil, val |-> Nil, refs |-> Nil,
          colls |-> <<>>, cap |-> 0, ret |-> Nil]
Shared == "m1"
NoCtor == [st |-> "none", m |-> Nil, args |-> <<>>, at |-> 0, err |-> Nil]
NoHistory ==
    [sets |-> [m \in Maps |-> [k \in KeyObjs |-> {}]],
     removed |-> [m \in Maps |-> [k \in KeyObjs |-> FALSE]],
     overlap |-> FALSE, parallel |-> FALSE, calls |-> 0]

InitWeak ==
    /\ weakColls = [k \in KeyObjs |-> Nil]
    /\ reach = [k \in KeyObjs |-> TRUE]
    /\ regs = [a \in Addrs |-> FreeReg]
    /\ data = [m \in Maps |-> [a \in Addrs |-> Nil]]
    /\ mu = [m \in Maps |-> Nil]
    /\ pc = [t \in Threads |-> "idle"]
    /\ loc = [t \in Threads |-> NoLoc]
    /\ gh = NoHistory
    /\ ctor = NoCtor

(* weakCollections.add, its loop: whether c is already an element.         *)
addFound_Never(colls, c) == FALSE
addFound(colls, c) == c \in Range(colls)

(* append(r.colls, c): the slice grows by doubling when it is full.        *)
appendColl(colls, cap, c) ==
    [colls |-> Append(colls, c),
     cap |-> IF Len(colls) < cap THEN cap ELSE IF cap = 0 THEN 1 ELSE 2 * cap]

(* weakCollections.remove: rebuild without c when the slice is large and   *)
(* sparse, otherwise move the last element to c's place and cut the slice. *)
ShrinkFloor == 16
ShrinkShift == 2
Shr(n, k) == n \div (2 ^ k)
Without(colls, c) == SelectSeq(colls, LAMBDA x : x # c)
(* The bug of a rebuild that copies every element, c included.            *)
removeColl_RebuildKeepsAll(colls, cap, c) ==
    IF cap > ShrinkFloor /\ Shr(cap, ShrinkShift) > Len(colls)
    THEN [colls |-> colls, cap |-> Len(colls)]
    ELSE IF c \in Range(colls)
         THEN LET i == IndexOf(colls, c)
                  l == Len(colls)
              IN  [colls |-> SubSeq([colls EXCEPT ![i] = colls[l]], 1, l - 1),
                   cap |-> cap]
         ELSE [colls |-> colls, cap |-> cap]
removeColl_DropsLast(colls, cap, c) ==
    IF cap > ShrinkFloor /\ Shr(cap, ShrinkShift) > Len(colls)
    THEN [colls |-> Without(colls, c), cap |-> Len(colls)]
    ELSE IF c \in Range(colls)
         THEN [colls |-> SubSeq(colls, 1, Len(colls) - 1), cap |-> cap]
         ELSE [colls |-> colls, cap |-> cap]
removeColl(colls, cap, c) ==
    IF cap > ShrinkFloor /\ Shr(cap, ShrinkShift) > Len(colls)
    THEN [colls |-> Without(colls, c), cap |-> Len(colls)]
    ELSE IF c \in Range(colls)
         THEN LET i == IndexOf(colls, c)
                  l == Len(colls)
              IN  [colls |-> SubSeq([colls EXCEPT ![i] = colls[l]], 1, l - 1),
                   cap |-> cap]
         ELSE [colls |-> colls, cap |-> cap]

(* A thread is idle, at a step of its operation, or done: the operation  *)
(* has its result (loc.ret) and returns with the next step.                *)
Goto(t, label) == pc' = [pc EXCEPT ![t] = label]
Finish(t, ret) ==
    /\ pc' = [pc EXCEPT ![t] = "done"]
    /\ loc' = [loc EXCEPT ![t] = [@ EXCEPT !.ret = ret]]
Busy(t) == pc[t] # "idle"
WeakOps == {"set", "get", "has", "remove"}

(* weakMapProto_set, _get, _has, _delete called on map m with key k.       *)
Begin(t, op, m, k, v) ==
    /\ pc[t] = "idle"
    /\ reach[k]
    /\ pc' = [pc EXCEPT ![t] = op]
    /\ loc' = [loc EXCEPT ![t] = [op |-> op, m |-> m, key |-> k,
                                  val |-> IF op = "set" THEN v ELSE Nil,
                                  refs |-> Nil, colls |-> <<>>, cap |-> 0,
                                  ret |-> Nil]]
    /\ UNCHANGED <<weakColls, reach, regs, data, mu>>

Return(t) ==
    /\ pc[t] = "done"
    /\ pc' = [pc EXCEPT ![t] = "idle"]
    /\ loc' = [loc EXCEPT ![t] = NoLoc]
    /\ UNCHANGED <<weakColls, reach, regs, data, mu>>

(* The bug of a getWeakCollRefs that makes a new record on every call.     *)
getWeakCollRefs_Test_AlwaysNew(t) ==
    /\ pc[t] = "set"
    /\ Goto(t, "set_new")
    /\ UNCHANGED <<weakColls, reach, regs, data, mu, loc>>

(* getWeakCollRefs: the test of o.weakColls ...                            *)
getWeakCollRefs_Test(t) ==
    /\ pc[t] = "set"
    /\ IF weakColls[loc[t].key] = Nil
       THEN /\ Goto(t, "set_new")
            /\ UNCHANGED loc
       ELSE /\ Goto(t, "set_lock")
            /\ loc' = [loc EXCEPT ![t] = [@ EXCEPT !.refs = weakColls[loc[t].key]]]
    /\ UNCHANGED <<weakColls, reach, regs, data, mu>>

(* ... and the new record, at any free address, with its finalizer set.    *)
getWeakCollRefs_New(t) ==
    /\ pc[t] = "set_new"
    /\ \E a \in Addrs :
          /\ regs[a].st = "free"
          /\ regs' = [regs EXCEPT ![a] = NewReg]
          /\ weakColls' = [weakColls EXCEPT ![loc[t].key] = a]
          /\ loc' = [loc EXCEPT ![t] = [@ EXCEPT !.refs = a]]
    /\ Goto(t, "set_lock")
    /\ UNCHANGED <<reach, data, mu>>

(* wm.Lock() of set, get, has and remove.                                  *)
Lock(t) ==
    /\ pc[t] \in {"set_lock", "get_lock", "has_lock", "remove_lock"}
    /\ mu[loc[t].m] = Nil
    /\ mu' = [mu EXCEPT ![loc[t].m] = t]
    /\ Goto(t, CASE pc[t] = "set_lock" -> "set_store"
                 [] pc[t] = "get_lock" -> "get_load"
                 [] pc[t] = "has_lock" -> "has_load"
                 [] OTHER -> "remove_delete")
    /\ UNCHANGED <<weakColls, reach, regs, data, loc>>

(* set: wm.data[refs.id()] = value; wm.Unlock()                            *)
SetStore(t) ==
    /\ pc[t] = "set_store"
    /\ mu[loc[t].m] = t
    /\ data' = [data EXCEPT ![loc[t].m][loc[t].refs] = loc[t].val]
    /\ mu' = [mu EXCEPT ![loc[t].m] = Nil]
    /\ Goto(t, "set_add")
    /\ UNCHANGED <<weakColls, reach, regs, loc>>

(* refs.add(wm): the loop over r.colls ...                                 *)
AddScan(t) ==
    /\ pc[t] = "set_add"
    /\ IF addFound(regs[loc[t].refs].colls, loc[t].m)
       THEN Finish(t, Nil)
       ELSE /\ Goto(t, "set_append")
            /\ loc' = [loc EXCEPT ![t] = [@ EXCEPT
                           !.colls = regs[loc[t].refs].colls,
                           !.cap = regs[loc[t].refs].cap]]
    /\ UNCHANGED <<weakColls, reach, regs, data, mu>>

(* ... and r.colls = append(r.colls, c).  The registry has no lock: when   *)
(* another thread changed the slice since the loop, the append works on    *)
(* the slice as it is now or on the slice the loop saw.                    *)
AddAppend(t) ==
    /\ pc[t] = "set_append"
    /\ \E base \in {[colls |-> regs[loc[t].refs].colls, cap |-> regs[loc[t].refs].cap],
                    [colls |-> loc[t].colls, cap |-> loc[t].cap]} :
          \E r \in {appendColl(base.colls, base.cap, loc[t].m)} :
             regs' = [regs EXCEPT ![loc[t].refs] =
                          [@ EXCEPT !.colls = r.colls, !.cap = r.cap]]
    /\ Finish(t, Nil)
    /\ UNCHANGED <<weakColls, reach, data, mu>>

(* The bug of a get, has or remove that calls getWeakCollRefs.             *)
ReadRefs_MakesRegistry(t) ==
    /\ pc[t] \in {"get", "has", "remove"}
    /\ IF weakColls[loc[t].key] = Nil
       THEN /\ \E a \in Addrs :
                  /\ regs[a].st = "free"
                  /\ regs' = [regs EXCEPT ![a] = NewReg]
                  /\ weakColls' = [weakColls EXCEPT ![loc[t].key] = a]
            /\ Finish(t, IF pc[t] = "get" THEN Nil ELSE FALSE)
       ELSE /\ Goto(t, CASE pc[t] = "get" -> "get_lock"
                         [] pc[t] = "has" -> "has_lock"
                         [] OTHER -> "remove_lock")
            /\ loc' = [loc EXCEPT ![t] = [@ EXCEPT !.refs = weakColls[loc[t].key]]]
            /\ UNCHANGED <<weakColls, regs>>
    /\ UNCHANGED <<reach, data, mu>>

(* get, has and remove: refs := key.weakColls; if refs == nil { return }   *)
ReadRefs(t) ==
    /\ pc[t] \in {"get", "has", "remove"}
    /\ IF weakColls[loc[t].key] = Nil
       THEN Finish(t, IF pc[t] = "get" THEN Nil ELSE FALSE)
       ELSE /\ Goto(t, CASE pc[t] = "get" -> "get_lock"
                         [] pc[t] = "has" -> "has_lock"
                         [] OTHER -> "remove_lock")
            /\ loc' = [loc EXCEPT ![t] = [@ EXCEPT !.refs = weakColls[loc[t].key]]]
    /\ UNCHANGED <<weakColls, reach, regs, data, mu>>

(* get: ret := wm.data[refs.id()]; wm.Unlock()                             *)
GetLoad(t) ==
    /\ pc[t] = "get_load"
    /\ mu[loc[t].m] = t
    /\ mu' = [mu EXCEPT ![loc[t].m] = Nil]
    /\ Finish(t, data[loc[t].m][loc[t].refs])
    /\ UNCHANGED <<weakColls, reach, regs, data>>

(* has: _, exists := wm.data[id]; wm.Unlock()                              *)
HasLoad(t) ==
    /\ pc[t] = "has_load"
    /\ mu[loc[t].m] = t
    /\ mu' = [mu EXCEPT ![loc[t].m] = Nil]
    /\ Finish(t, data[loc[t].m][loc[t].refs] # Nil)
    /\ UNCHANGED <<weakColls, reach, regs, data>>

(* The bug of a remove that unregisters whether or not an entry existed.   *)
RemoveDelete_AlwaysExists(t) ==
    /\ pc[t] = "remove_delete"
    /\ mu[loc[t].m] = t
    /\ data' = [data EXCEPT ![loc[t].m][loc[t].refs] = Nil]
    /\ mu' = [mu EXCEPT ![loc[t].m] = Nil]
    /\ Goto(t, "remove_scan") /\ UNCHANGED loc
    /\ UNCHANGED <<weakColls, reach, regs>>

(* remove: delete(wm.data, id) if it exists; wm.Unlock()                   *)
RemoveDelete(t) ==
    /\ pc[t] = "remove_delete"
    /\ mu[loc[t].m] = t
    /\ data' = [data EXCEPT ![loc[t].m][loc[t].refs] = Nil]
    /\ mu' = [mu EXCEPT ![loc[t].m] = Nil]
    /\ IF data[loc[t].m][loc[t].refs] # Nil
       THEN Goto(t, "remove_scan") /\ UNCHANGED loc
       ELSE Finish(t, FALSE)
    /\ UNCHANGED <<weakColls, reach, regs>>

(* refs.remove(wm): the reads of r.colls ...                               *)
RemoveScan(t) ==
    /\ pc[t] = "remove_scan"
    /\ Goto(t, "remove_write")
    /\ loc' = [loc EXCEPT ![t] = [@ EXCEPT !.colls = regs[loc[t].refs].colls,
                                           !.cap = regs[loc[t].refs].cap]]
    /\ UNCHANGED <<weakColls, reach, regs, data, mu>>

(* ... and the write of the slice, computed from the slice as it is now   *)
(* or, when another thread changed it in between, as it was read.          *)
RemoveWrite(t) ==
    /\ pc[t] = "remove_write"
    /\ \E base \in {[colls |-> regs[loc[t].refs].colls, cap |-> regs[loc[t].refs].cap],
                    [colls |-> loc[t].colls, cap |-> loc[t].cap]} :
          \E r \in {removeColl(base.colls, base.cap, loc[t].m)} :
             regs' = [regs EXCEPT ![loc[t].refs] =
                          [@ EXCEPT !.colls = r.colls, !.cap = r.cap]]
    /\ Finish(t, TRUE)
    /\ UNCHANGED <<weakColls, reach, data, mu>>

(* The program lets go of a key object it is not using.                    *)
Drop(k) ==
    /\ reach[k]
    /\ \A t \in Threads : Busy(t) => loc[t].key # k
    /\ reach' = [reach EXCEPT ![k] = FALSE]
    /\ UNCHANGED <<weakColls, regs, data, mu, pc, loc>>

(* A record is reachable from the key object that owns it and from the     *)
(* operation that holds it in refs.                                        *)
Reachable(a) ==
    \/ \E k \in KeyObjs : reach[k] /\ weakColls[k] = a
    \/ \E t \in Threads : Busy(t) /\ (loc[t].refs = a \/ weakColls[loc[t].key] = a)

(* The bug of a loop that starts at the second collection.                 *)
FinalizerStart_SkipsFirst(a) ==
    /\ regs[a].st = "live"
    /\ ~Reachable(a)
    /\ \A b \in Addrs : regs[b].st # "final"
    /\ regs' = [regs EXCEPT ![a] = [@ EXCEPT !.st = "final",
                     !.todo = IF regs[a].colls = <<>> THEN <<>> ELSE Tail(regs[a].colls)]]
    /\ UNCHANGED <<weakColls, reach, data, mu, pc, loc>>

(* finalizeObjectWeakRefs, run by the one finalizer goroutine on a record  *)
(* that is no longer reachable: id := r.id(); for _, c := range r.colls    *)
FinalizerStart(a) ==
    /\ regs[a].st = "live"
    /\ ~Reachable(a)
    /\ \A b \in Addrs : regs[b].st # "final"
    /\ regs' = [regs EXCEPT ![a] = [@ EXCEPT !.st = "final", !.todo = regs[a].colls]]
    /\ UNCHANGED <<weakColls, reach, data, mu, pc, loc>>

(* The bug of a removePtr that does not wait for the mutex.                *)
FinalizerLock_NoWait(a) ==
    /\ regs[a].st = "final"
    /\ regs[a].todo # <<>>
    /\ mu[Head(regs[a].todo)] # Finalizer
    /\ mu' = [mu EXCEPT ![Head(regs[a].todo)] = Finalizer]
    /\ UNCHANGED <<weakColls, reach, regs, data, pc, loc>>

(* c.removePtr(id): wm.Lock() ...                                          *)
FinalizerLock(a) ==
    /\ regs[a].st = "final"
    /\ regs[a].todo # <<>>
    /\ mu[Head(regs[a].todo)] = Nil
    /\ mu' = [mu EXCEPT ![Head(regs[a].todo)] = Finalizer]
    /\ UNCHANGED <<weakColls, reach, regs, data, pc, loc>>

(* The bug of a removePtr that leaves the entry in the map.                 *)
removePtr_KeepsEntry(a) ==
    /\ regs[a].st = "final"
    /\ regs[a].todo # <<>>
    /\ mu[Head(regs[a].todo)] = Finalizer
    /\ mu' = [mu EXCEPT ![Head(regs[a].todo)] = Nil]
    /\ regs' = [regs EXCEPT ![a] = [@ EXCEPT !.todo = Tail(@)]]
    /\ UNCHANGED <<weakColls, reach, data, pc, loc>>

(* ... delete(wm.data, ptr); wm.Unlock()                                   *)
removePtr(a) ==
    /\ regs[a].st = "final"
    /\ regs[a].todo # <<>>
    /\ mu[Head(regs[a].todo)] = Finalizer
    /\ data' = [data EXCEPT ![Head(regs[a].todo)][a] = Nil]
    /\ mu' = [mu EXCEPT ![Head(regs[a].todo)] = Nil]
    /\ regs' = [regs EXCEPT ![a] = [@ EXCEPT !.todo = Tail(@)]]
    /\ UNCHANGED <<weakColls, reach, pc, loc>>

(* r.colls = nil: the finalizer has run.                                   *)
FinalizerEnd(a) ==
    /\ regs[a].st = "final"
    /\ regs[a].todo = <<>>
    /\ regs' = [regs EXCEPT ![a] = [@ EXCEPT !.st = "finalized",
                                            !.colls = <<>>, !.cap = 0]]
    /\ UNCHANGED <<weakColls, reach, data, mu, pc, loc>>

(* The collector frees a finalized record, and with it the unreachable key *)
(* object that owned it; the address can be handed out again.              *)
Free(a) ==
    /\ regs[a].st = "finalized"
    /\ regs' = [regs EXCEPT ![a] = FreeReg]
    /\ weakColls' = [k \in KeyObjs |->
                        IF weakColls[k] = a /\ ~reach[k] THEN Nil ELSE weakColls[k]]
    /\ UNCHANGED <<reach, data, mu, pc, loc>>

----------------------------------------------------------------------------
(* One object, one name, every descriptor: the redefinition rules.         *)

DefObjs == {"o1"}
DefNames == {"a"}

InitObjects ==
    /\ prototype = [o \in Objs |-> Nil]
    /\ extensible = [o \in Objs |-> TRUE]
    /\ values = [o \in Objs |-> [n \in Names |-> Absent]]
    /\ propNames = [o \in Objs |-> <<>>]
    /\ symValues = [o \in Objs |-> [s \in Syms |-> Absent]]
    /\ last = NoOp
    /\ iter = NoEnum
    /\ InitWeak

NextDef ==
    \/ /\ Running
       /\ \E o \in DefObjs, n \in DefNames, d \in Descrs, t \in BOOLEAN :
            DefineOwnProperty(o, n, d, t)
       /\ UNCHANGED xvars
    \/ /\ Running
       /\ \E o \in DefObjs, n \in DefNames, v \in Prims, t \in BOOLEAN :
            Put(o, n, v, t)
       /\ UNCHANGED xvars
    \/ /\ Running
       /\ \E o \in DefObjs, n \in DefNames, t \in BOOLEAN : Delete(o, n, t)
       /\ UNCHANGED xvars
    \/ /\ Running
       /\ \E o \in DefObjs : PreventExtensions(o)
       /\ UNCHANGED xvars

SpecDef == InitObjects /\ [][NextDef]_vars

----------------------------------------------------------------------------
(* Assignment along prototype chains: three objects linked by puts of the  *)
(* pseudo-key, properties created by defineOwnProperty and by put.  A run  *)
(* works on one ordinary key, a string name or a symbol: a key is used     *)
(* only while no object holds a property under the other one.              *)

PutKeys == {"a", "@s"}
PutDescrs ==
    {PropertyDescriptor("v1", FLAG_FALSE, FLAG_NOT_SET, FLAG_NOT_SET, Nil, Nil),
     PropertyDescriptor("v2", FLAG_TRUE, FLAG_NOT_SET, FLAG_NOT_SET, Nil, Nil),
     PropertyDescriptor(Nil, FLAG_NOT_SET, FLAG_NOT_SET, FLAG_NOT_SET, Nil, "f1"),
     PropertyDescriptor(Nil, FLAG_NOT_SET, FLAG_NOT_SET, FLAG_NOT_SET, "f1", Nil)}
ReadOnlyDescr ==
    PropertyDescriptor("v1", FLAG_FALSE, FLAG_NOT_SET, FLAG_NOT_SET, Nil, Nil)

StoredOwn(o, n) == IF IsSym(n) THEN symValues[o][n] ELSE values[o][n]
InFocus(n) ==
    \A o \in Objs, m \in PutKeys \ {n} : StoredOwn(o, m).kind = "none"

NextPut ==
    \/ /\ Running
       /\ \E o \in Objs, n \in PutKeys, d \in PutDescrs :
            /\ InFocus(n)
            /\ StoredOwn(o, n).kind = "none"
            /\ DefineOwnProperty(o, n, d, FALSE)
       /\ UNCHANGED xvars
    \/ /\ Running
       /\ StoredOwn("o2", ProtoName).kind = "none"
       /\ DefineOwnProperty("o2", ProtoName, ReadOnlyDescr, FALSE)
       /\ UNCHANGED xvars
    \/ /\ Running
       /\ \E o \in Objs, n \in PutKeys, t \in BOOLEAN :
            InFocus(n) /\ Put(o, n, "v2", t)
       /\ UNCHANGED xvars
    \/ /\ Running
       /\ \E o \in Objs, v \in {"o2", "o3", Null, "v2"}, t \in BOOLEAN :
            Put(o, ProtoName, v, t)
       /\ UNCHANGED xvars
    \/ /\ Running
       /\ PreventExtensions("o1")
       /\ UNCHANGED xvars

SpecPut == InitObjects /\ [][NextPut]_vars

----------------------------------------------------------------------------
(* Reading and assigning along prototype chains: three objects linked in   *)
(* any way by puts of the pseudo-key, data and accessor properties on any  *)
(* of them, and get and put of the key on any of them.                     *)

Get(o, n) ==
    /\ Running
    /\ \E r \in {get(o, n)} :
          Record(Op("get", o, n, Nil, NoDescr, FALSE, r.ret, "none", r.call))
    /\ UNCHANGED ovars

NextAccess ==
    \/ /\ Running
       /\ \E o \in Objs, n \in PutKeys, d \in PutDescrs :
            /\ InFocus(n)
            /\ StoredOwn(o, n).kind = "none"
            /\ DefineOwnProperty(o, n, d, FALSE)
       /\ UNCHANGED xvars
    \/ /\ Running
       /\ \E o \in Objs, v \in Objs \cup {Null} : Put(o, ProtoName, v, FALSE)
       /\ UNCHANGED xvars
    \/ /\ Running
       /\ \E o \in Objs, n \in PutKeys, t \in BOOLEAN :
            InFocus(n) /\ Put(o, n, "v2", t)
       /\ UNCHANGED xvars
    \/ /\ Running
       /\ \E o \in Objs, n \in PutKeys : InFocus(n) /\ Get(o, n)
       /\ UNCHANGED xvars

SpecAccess == InitObjects /\ [][NextAccess]_vars

----------------------------------------------------------------------------
(* Deleting: one object, three names and a symbol, each created by put or  *)
(* defined configurable or not, and deleted in any order.                  *)

DelKeys == {"a", "b", "c", "@s"}
DelDescrs ==
    {PropertyDescriptor("v1", FLAG_TRUE, FLAG_TRUE, FLAG_TRUE, Nil, Nil),
     PropertyDescriptor("v1", FLAG_TRUE, FLAG_TRUE, FLAG_FALSE, Nil, Nil)}

NextDelete ==
    \/ /\ Running
       /\ \E n \in DelKeys, d \in DelDescrs :
            /\ StoredOwn("o1", n).kind = "none"
            /\ DefineOwnProperty("o1", n, d, FALSE)
       /\ UNCHANGED xvars
    \/ /\ Running
       /\ \E n \in DelKeys : Put("o1", n, "v2", FALSE)
       /\ UNCHANGED xvars
    \/ /\ Running
       /\ \E n \in DelKeys \cup {ProtoName}, t \in BOOLEAN : Delete("o1", n, t)
       /\ UNCHANGED xvars

SpecDelete == InitObjects /\ [][NextDelete]_vars

----------------------------------------------------------------------------
(* The key order: an object with two names and the pseudo-key, the object  *)
(* that a put of the pseudo-key makes its prototype with one of the names, *)
(* and put, defineOwnProperty, delete and _putProp in any order; the       *)
(* operations leave no record.                                             *)

KeyOrderObjs == {"o1", "o2"}
KeyOrderKeys(o) == IF o = "o1" THEN {"a", "b", ProtoName} ELSE {"a"}
KeyOrderDescrs ==
    {PropertyDescriptor("v1", FLAG_NOT_SET, FLAG_NOT_SET, FLAG_NOT_SET, Nil, Nil),
     PropertyDescriptor(Nil, FLAG_NOT_SET, FLAG_NOT_SET, FLAG_TRUE, Nil, "f1")}
Unrecorded == last' = NoOp /\ UNCHANGED xvars

NextKeyOrder ==
    \/ /\ \E o \in KeyOrderObjs : \E n \in KeyOrderKeys(o), d \in KeyOrderDescrs :
            DefineOwnProperty(o, n, d, FALSE)
       /\ Unrecorded
    \/ /\ \E o \in KeyOrderObjs : \E n \in KeyOrderKeys(o) :
            Put(o, n, IF n = ProtoName THEN "o2" ELSE "v1", FALSE)
       /\ Unrecorded
    \/ /\ \E o \in KeyOrderObjs : \E n \in KeyOrderKeys(o) : Delete(o, n, FALSE)
       /\ Unrecorded
    \/ /\ \E o \in KeyOrderObjs : \E n \in KeyOrderKeys(o), c \in BOOLEAN :
            PutProp(o, n, "v1", TRUE, c, c)
       /\ Unrecorded
    \/ /\ PreventExtensions("o1")
       /\ Unrecorded

SpecKeyOrder == InitObjects /\ [][NextKeyOrder]_vars

----------------------------------------------------------------------------
(* The prototype link alone: setProto and puts of the pseudo-key on three  *)
(* objects, any of which may have been made non-extensible.                *)

NextProto ==
    \/ /\ Running
       /\ \E o \in Objs, p \in Objs \cup {Nil} : SetProto(o, p)
       /\ UNCHANGED xvars
    \/ /\ Running
       /\ \E o \in Objs, v \in Objs \cup {Null, "v1"}, t \in BOOLEAN :
            Put(o, ProtoName, v, t)
       /\ UNCHANGED xvars
    \/ /\ Running
       /\ \E o \in Objs : PreventExtensions(o)
       /\ UNCHANGED xvars

SpecProto == InitObjects /\ [][NextProto]_vars

----------------------------------------------------------------------------
(* Enumeration: an object and its prototype, three names, the middle one   *)
(* on both objects and plain or non-enumerable, and one sequence consumed  *)
(* call by call while the objects change.                                  *)

EnumObjs == {"o1", "o2"}
EnumKeys(o) == IF o = "o1" THEN {"a", "b"} ELSE {"b", "c"}
HiddenDescr ==
    PropertyDescriptor("v1", FLAG_TRUE, FLAG_FALSE, FLAG_TRUE, Nil, Nil)

(* An object operation of these runs leaves no record, and one that        *)
(* changes an object while a sequence is in use is counted.                *)
MaxMutations == 2
Touch ==
    /\ last' = NoOp
    /\ iter.muts < MaxMutations
    /\ iter' = IF iter.st = "active" /\ ovars' # ovars
               THEN [iter EXCEPT !.muts = @ + 1] ELSE iter
    /\ UNCHANGED wvars

NextEnum ==
    \/ /\ Running
       /\ \E o \in EnumObjs : \E n \in EnumKeys(o) : Put(o, n, "v1", FALSE)
       /\ Touch
    \/ /\ Running
       /\ \E o \in EnumObjs : DefineOwnProperty(o, "b", HiddenDescr, FALSE)
       /\ Touch
    \/ /\ Running
       /\ \E o \in EnumObjs : \E n \in EnumKeys(o) : Delete(o, n, FALSE)
       /\ Touch
    \/ /\ Running
       /\ \E v \in {"o2", Null} : Put("o1", ProtoName, v, FALSE)
       /\ Touch
    \/ \E o \in EnumObjs, all \in BOOLEAN, recursive \in BOOLEAN :
          Enumerate(o, all, recursive)
    \/ IterNext

SpecEnum == InitObjects /\ [][NextEnum]_vars

----------------------------------------------------------------------------
(* Key order: the objects and operations of the enumeration runs, every   *)
(* name on both objects and no sequence in use, so that every order of     *)
(* puts, redefinitions and deletes is reached without a count of changes.  *)

OrderKeys == {"a", "b", "c"}

NextOrder ==
    \/ /\ \E o \in EnumObjs, n \in OrderKeys : Put(o, n, "v1", FALSE)
       /\ Unrecorded
    \/ /\ \E o \in EnumObjs : DefineOwnProperty(o, "b", HiddenDescr, FALSE)
       /\ Unrecorded
    \/ /\ \E o \in EnumObjs, n \in OrderKeys : Delete(o, n, FALSE)
       /\ Unrecorded
    \/ /\ \E v \in {"o2", Null} : Put("o1", ProtoName, v, FALSE)
       /\ Unrecorded

SpecOrder == InitObjects /\ [][NextOrder]_vars

----------------------------------------------------------------------------
(* Shadowing: three objects linked in any way by puts of the pseudo-key,   *)
(* two names, each on any object absent, plain or non-enumerable; the      *)
(* operations leave no record and no sequence is in use.                   *)

ShadowKeys == {"a", "b"}

NextShadow ==
    \/ /\ \E o \in Objs, n \in ShadowKeys : Put(o, n, "v1", FALSE)
       /\ Unrecorded
    \/ /\ \E o \in Objs, n \in ShadowKeys :
            DefineOwnProperty(o, n, HiddenDescr, FALSE)
       /\ Unrecorded
    \/ /\ \E o \in Objs, n \in ShadowKeys : Delete(o, n, FALSE)
       /\ Unrecorded
    \/ /\ \E o \in Objs, v \in Objs \cup {Null} : Put(o, ProtoName, v, FALSE)
       /\ Unrecorded

SpecShadow == InitObjects /\ [][NextShadow]_vars

----------------------------------------------------------------------------
(* Weak maps used from the single main context: one thread, two maps,      *)
(* two key objects and two addresses, so that a freed address is handed    *)
(* out again, with the finalizer goroutine running beside the thread.      *)

Main == "t1"
WeakFrame == UNCHANGED <<ovars, last, iter, gh, ctor>>

NextWeak ==
    \/ /\ \E op \in WeakOps, m \in Maps, k \in KeyObjs, v \in Prims :
            Begin(Main, op, m, k, v)
       /\ WeakFrame
    \/ getWeakCollRefs_Test(Main) /\ WeakFrame
    \/ getWeakCollRefs_New(Main) /\ WeakFrame
    \/ Lock(Main) /\ WeakFrame
    \/ SetStore(Main) /\ WeakFrame
    \/ AddScan(Main) /\ WeakFrame
    \/ AddAppend(Main) /\ WeakFrame
    \/ ReadRefs(Main) /\ WeakFrame
    \/ GetLoad(Main) /\ WeakFrame
    \/ HasLoad(Main) /\ WeakFrame
    \/ RemoveDelete(Main) /\ WeakFrame
    \/ RemoveScan(Main) /\ WeakFrame
    \/ RemoveWrite(Main) /\ WeakFrame
    \/ Return(Main) /\ WeakFrame
    \/ (\E k \in KeyObjs : Drop(k)) /\ WeakFrame
    \/ (\E a \in Addrs : FinalizerStart(a)) /\ WeakFrame
    \/ (\E a \in Addrs : FinalizerLock(a)) /\ WeakFrame
    \/ (\E a \in Addrs : removePtr(a)) /\ WeakFrame
    \/ (\E a \in Addrs : FinalizerEnd(a)) /\ WeakFrame
    \/ (\E a \in Addrs : Free(a)) /\ WeakFrame

SpecWeak == InitObjects /\ [][NextWeak]_vars

(* Reclamation under the scheduling the runtime gives: the main context   *)
(* sets, reads and deletes one value, the finalizer goroutine runs when it *)
(* can, a mutex is granted to a goroutine that keeps asking for it, and a  *)
(* thread that holds the mutex goes on to release it.                      *)
NextReclaim ==
    \/ /\ \E op \in {"set", "get", "remove"}, m \in Maps, k \in KeyObjs :
            Begin(Main, op, m, k, "v1")
       /\ WeakFrame
    \/ getWeakCollRefs_Test(Main) /\ WeakFrame
    \/ getWeakCollRefs_New(Main) /\ WeakFrame
    \/ Lock(Main) /\ WeakFrame
    \/ SetStore(Main) /\ WeakFrame
    \/ AddScan(Main) /\ WeakFrame
    \/ AddAppend(Main) /\ WeakFrame
    \/ ReadRefs(Main) /\ WeakFrame
    \/ GetLoad(Main) /\ WeakFrame
    \/ RemoveDelete(Main) /\ WeakFrame
    \/ RemoveScan(Main) /\ WeakFrame
    \/ RemoveWrite(Main) /\ WeakFrame
    \/ Return(Main) /\ WeakFrame
    \/ (\E k \in KeyObjs : Drop(k)) /\ WeakFrame
    \/ (\E a \in Addrs : FinalizerStart(a)) /\ WeakFrame
    \/ (\E a \in Addrs : FinalizerLock(a)) /\ WeakFrame
    \/ (\E a \in Addrs : removePtr(a)) /\ WeakFrame
    \/ (\E a \in Addrs : FinalizerEnd(a)) /\ WeakFrame
    \/ (\E a \in Addrs : Free(a)) /\ WeakFrame

ReleaseStep == SetStore(Main) \/ GetLoad(Main) \/ RemoveDelete(Main)
FairReclaim ==
    /\ \A a \in Addrs : WF_vars(FinalizerStart(a) /\ WeakFrame)
    /\ \A a \in Addrs : SF_vars(FinalizerLock(a) /\ WeakFrame)
    /\ \A a \in Addrs : WF_vars(removePtr(a) /\ WeakFrame)
    /\ \A a \in Addrs : WF_vars(FinalizerEnd(a) /\ WeakFrame)
    /\ WF_vars(ReleaseStep /\ WeakFrame)

SpecReclaim == InitObjects /\ [][NextReclaim]_vars /\ FairReclaim

----------------------------------------------------------------------------
(* The main context alone, with the finalizer goroutine beside it, and the *)
(* sequence of its completed calls: in this specification the history      *)
(* keeps in sets[m][k] the value of the latest set(m, k, v) that no later   *)
(* delete(m, k) followed, as a set of at most one value, and forgets a key  *)
(* object when the program lets go of it.                                  *)
Remember(t) ==
    LET returns == pc[t] = "done" /\ pc'[t] = "idle"
        op == loc[t]
    IN  gh' = IF returns /\ op.op = "set"
              THEN [gh EXCEPT !.sets[op.m][op.key] = {op.val}]
              ELSE IF returns /\ op.op = "remove"
                   THEN [gh EXCEPT !.sets[op.m][op.key] = {}]
                   ELSE gh
Forget(k) == gh' = [gh EXCEPT !.sets = [m \in Maps |-> [@[m] EXCEPT ![k] = {}]]]
SeqFrame == UNCHANGED <<ovars, last, iter, ctor>>

NextSeq ==
    \/ /\ \E op \in WeakOps, m \in Maps, k \in KeyObjs, v \in Prims :
            Begin(Main, op, m, k, v)
       /\ Remember(Main) /\ SeqFrame
    \/ getWeakCollRefs_Test(Main) /\ Remember(Main) /\ SeqFrame
    \/ getWeakCollRefs_New(Main) /\ Remember(Main) /\ SeqFrame
    \/ Lock(Main) /\ Remember(Main) /\ SeqFrame
    \/ SetStore(Main) /\ Remember(Main) /\ SeqFrame
    \/ AddScan(Main) /\ Remember(Main) /\ SeqFrame
    \/ AddAppend(Main) /\ Remember(Main) /\ SeqFrame
    \/ ReadRefs(Main) /\ Remember(Main) /\ SeqFrame
    \/ GetLoad(Main) /\ Remember(Main) /\ SeqFrame
    \/ HasLoad(Main) /\ Remember(Main) /\ SeqFrame
    \/ RemoveDelete(Main) /\ Remember(Main) /\ SeqFrame
    \/ RemoveScan(Main) /\ Remember(Main) /\ SeqFrame
    \/ RemoveWrite(Main) /\ Remember(Main) /\ SeqFrame
    \/ Return(Main) /\ Remember(Main) /\ SeqFrame
    \/ (\E k \in KeyObjs : Drop(k) /\ Forget(k)) /\ SeqFrame
    \/ (\E a \in Addrs : FinalizerStart(a)) /\ UNCHANGED gh /\ SeqFrame
    \/ (\E a \in Addrs : FinalizerLock(a)) /\ UNCHANGED gh /\ SeqFrame
    \/ (\E a \in Addrs : removePtr(a)) /\ UNCHANGED gh /\ SeqFrame
    \/ (\E a \in Addrs : FinalizerEnd(a)) /\ UNCHANGED gh /\ SeqFrame
    \/ (\E a \in Addrs : Free(a)) /\ UNCHANGED gh /\ SeqFrame

SpecSeq == InitObjects /\ [][NextSeq]_vars

----------------------------------------------------------------------------
(* new WeakMap(iterable), the path taken when set is not overridden        *)
(* (builtin_weakmap.go:136-174).  The iterable is a list of at most        *)
(* MaxEntries entries [k, v], k a key object or undefined; the program     *)
(* holds the key objects of the list until the callback has taken them.    *)
(* The constructed map is NewMap; the other map may hold an entry for one  *)
(* of the key objects before the call.                                     *)
NewMap == "m2"
MaxEntries == 3
Entries == [k : KeyObjs \cup {Undefined}, v : Prims]
ArgLists == UNION {[1..n -> Entries] : n \in 0..MaxEntries}

(* r.toObject(k): the object, or a TypeError for what is not an object.    *)
toObject(v) == IF v \in KeyObjs THEN v ELSE "TypeError"

builtin_newWeakMap(args) ==
    /\ ctor.st = "none"
    /\ pc[Main] = "idle"
    /\ \A i \in 1..Len(args) : args[i].k \in KeyObjs => reach[args[i].k]
    /\ ctor' = [st |-> "running", m |-> NewMap, args |-> args, at |-> 1,
                err |-> Nil]
    /\ UNCHANGED <<weakColls, reach, regs, data, mu, pc, loc>>

(* The bug of a loop that passes over an entry whose key is no object.     *)
iterate_SkipsMalformed ==
    /\ ctor.st = "running"
    /\ pc[Main] = "idle"
    /\ IF ctor.at > Len(ctor.args)
       THEN /\ ctor' = [ctor EXCEPT !.st = "returned"]
            /\ UNCHANGED <<weakColls, reach, regs, data, mu, pc, loc>>
       ELSE LET e == ctor.args[ctor.at]
            IN  IF toObject(e.k) = "TypeError"
                THEN /\ ctor' = [ctor EXCEPT !.at = @ + 1]
                     /\ UNCHANGED <<weakColls, reach, regs, data, mu, pc, loc>>
                ELSE /\ Begin(Main, "set", ctor.m, toObject(e.k), e.v)
                     /\ ctor' = [ctor EXCEPT !.at = @ + 1]

(* r.iterate(iter, func(item) { ... wmo.m.set(r.toObject(k), v) }): the    *)
(* next entry, the panic of toObject, or the end of the iterable.          *)
iterate ==
    /\ ctor.st = "running"
    /\ pc[Main] = "idle"
    /\ IF ctor.at > Len(ctor.args)
       THEN /\ ctor' = [ctor EXCEPT !.st = "returned"]
            /\ UNCHANGED <<weakColls, reach, regs, data, mu, pc, loc>>
       ELSE LET e == ctor.args[ctor.at]
            IN  IF toObject(e.k) = "TypeError"
                THEN /\ ctor' = [ctor EXCEPT !.st = "thrown", !.err = "TypeError"]
                     /\ UNCHANGED <<weakColls, reach, regs, data, mu, pc, loc>>
                ELSE /\ Begin(Main, "set", ctor.m, toObject(e.k), e.v)
                     /\ ctor' = [ctor EXCEPT !.at = @ + 1]

(* The key objects the iterable still holds for the constructor.           *)
Pending ==
    IF ctor.st # "running" THEN {}
    ELSE {ctor.args[i].k : i \in ctor.at..Len(ctor.args)}
NewFrame == UNCHANGED <<ovars, last, iter, gh>>

NextNew ==
    \/ /\ ctor.st = "none"
       /\ Begin(Main, "set", Shared, "k1", "v1")
       /\ UNCHANGED ctor /\ NewFrame
    \/ (\E args \in ArgLists : builtin_newWeakMap(args)) /\ NewFrame
    \/ iterate /\ NewFrame
    \/ getWeakCollRefs_Test(Main) /\ UNCHANGED ctor /\ NewFrame
    \/ getWeakCollRefs_New(Main) /\ UNCHANGED ctor /\ NewFrame
    \/ Lock(Main) /\ UNCHANGED ctor /\ NewFrame
    \/ SetStore(Main) /\ UNCHANGED ctor /\ NewFrame
    \/ AddScan(Main) /\ UNCHANGED ctor /\ NewFrame
    \/ AddAppend(Main) /\ UNCHANGED ctor /\ NewFrame
    \/ Return(Main) /\ UNCHANGED ctor /\ NewFrame
    \/ (\E k \in KeyObjs \ Pending : Drop(k)) /\ UNCHANGED ctor /\ NewFrame
    \/ (\E a \in Addrs : FinalizerStart(a)) /\ UNCHANGED ctor /\ NewFrame
    \/ (\E a \in Addrs : FinalizerLock(a)) /\ UNCHANGED ctor /\ NewFrame
    \/ (\E a \in Addrs : removePtr(a)) /\ UNCHANGED ctor /\ NewFrame
    \/ (\E a \in Addrs : FinalizerEnd(a)) /\ UNCHANGED ctor /\ NewFrame
    \/ (\E a \in Addrs : Free(a)) /\ UNCHANGED ctor /\ NewFrame

SpecNew == InitObjects /\ [][NextNew]_vars

----------------------------------------------------------------------------
(* One registry on its own: add and remove called with any collection on   *)
(* any list the registry can hold.  The list at the start is any list of   *)
(* distinct collections (add appends only what it did not find) with any   *)
(* capacity that appends and rebuilds leave: doubled from 1, or doubled    *)
(* from the length 5 a rebuild left; above ShrinkFloor the list is at most *)
(* one element short of a quarter of the capacity, since the first remove  *)
(* below the quarter rebuilds.  The main context's record keeps the        *)
(* arguments of a recorded call, which is the last one of its run.         *)

Colls == {"c1", "c2", "c3", "c4", "c5", "c6"}
Caps == {0, 1, 2, 4, 5, 8, 10, 16, 20}
Registry == "r1"

RECURSIVE Lists(_)
(* The lists of n distinct collections.                                    *)
Lists(n) ==
    IF n = 0 THEN {<<>>}
    ELSE UNION {{Append(s, c) : c \in Colls \ Range(s)} : s \in Lists(n - 1)}

InitRegistry ==
    /\ prototype = [o \in Objs |-> Nil]
    /\ extensible = [o \in Objs |-> TRUE]
    /\ values = [o \in Objs |-> [n \in Names |-> Absent]]
    /\ propNames = [o \in Objs |-> <<>>]
    /\ symValues = [o \in Objs |-> [s \in Syms |-> Absent]]
    /\ last = NoOp
    /\ iter = NoEnum
    /\ weakColls = [k \in KeyObjs |-> IF k = "k1" THEN Registry ELSE Nil]
    /\ reach = [k \in KeyObjs |-> TRUE]
    /\ \E n \in 0..Cardinality(Colls) : \E colls \in Lists(n) :
       \E cap \in Caps :
          /\ cap >= n
          /\ cap > ShrinkFloor => n + 1 >= Shr(cap, ShrinkShift)
          /\ regs = [a \in Addrs |->
                        IF a = Registry
                        THEN [st |-> "live", colls |-> colls, cap |-> cap,
                              todo |-> <<>>]
                        ELSE FreeReg]
    /\ data = [m \in Maps |-> [a \in Addrs |-> Nil]]
    /\ mu = [m \in Maps |-> Nil]
    /\ pc = [t \in Threads |-> "idle"]
    /\ loc = [t \in Threads |-> NoLoc]
    /\ gh = NoHistory
    /\ ctor = NoCtor

(* The call r.add(c) or r.remove(c), its arguments recorded or not.        *)
Called(op, c) ==
    \E rec \in BOOLEAN :
       loc' = IF rec
              THEN [loc EXCEPT ![Main] =
                       [NoLoc EXCEPT !.op = op, !.m = c, !.refs = Registry,
                                     !.colls = regs[Registry].colls,
                                     !.cap = regs[Registry].cap]]
              ELSE loc

weakCollections_add(c) ==
    /\ loc[Main].op = Nil
    /\ regs' = [regs EXCEPT ![Registry] =
                   IF addFound(@.colls, c) THEN @
                   ELSE LET r == appendColl(@.colls, @.cap, c)
                        IN  [@ EXCEPT !.colls = r.colls, !.cap = r.cap]]
    /\ Called("add", c)
    /\ UNCHANGED <<weakColls, reach, data, mu, pc>>

weakCollections_remove(c) ==
    /\ loc[Main].op = Nil
    /\ regs' = [regs EXCEPT ![Registry] =
                   LET r == removeColl(@.colls, @.cap, c)
                   IN  [@ EXCEPT !.colls = r.colls, !.cap = r.cap]]
    /\ Called("remove", c)
    /\ UNCHANGED <<weakColls, reach, data, mu, pc>>

NextRegistry ==
    \/ (\E c \in Colls : weakCollections_add(c)) /\ WeakFrame
    \/ (\E c \in Colls : weakCollections_remove(c)) /\ WeakFrame

SpecRegistry == InitRegistry /\ [][NextRegistry]_vars

----------------------------------------------------------------------------
(* One weak map used by two threads at once, each storing its own value,   *)
(* on two key objects, with the finalizer goroutine beside them.  The      *)
(* history keeps, for each key, the values the completed sets stored and   *)
(* whether a delete completed, whether two threads ever worked on the same *)
(* key at the same time (overlap) and whether they ever worked at the same *)
(* time at all (parallel).  A run makes MaxCalls calls.                    *)

MaxCalls == 3
ValueOf(t) == IF t = "t1" THEN "v1" ELSE "v2"
Working(t) == pc[t] \notin {"idle", "done"}

Track(t) ==
    LET begins == pc[t] = "idle" /\ pc'[t] # "idle"
        ends == pc[t] # "done" /\ pc'[t] = "done"
        op == loc[t]
    IN  gh' = [sets |-> [m \in Maps |-> [k \in KeyObjs |->
                  IF ends /\ op.op = "set" /\ op.m = m /\ op.key = k
                  THEN gh.sets[m][k] \cup {op.val} ELSE gh.sets[m][k]]],
               removed |-> [m \in Maps |-> [k \in KeyObjs |->
                  gh.removed[m][k]
                     \/ (ends /\ op.op = "remove" /\ op.m = m /\ op.key = k)]],
               overlap |-> gh.overlap
                  \/ (begins /\ \E u \in Threads \ {t} :
                                   Working(u) /\ loc[u].key = loc'[t].key),
               parallel |-> gh.parallel
                  \/ (begins /\ \E u \in Threads \ {t} : Working(u)),
               calls |-> IF begins THEN gh.calls + 1 ELSE gh.calls]
ConcFrame == UNCHANGED <<ovars, last, iter, ctor>>

NextConc ==
    \/ /\ gh.calls < MaxCalls
       /\ \E t \in Threads, op \in {"set", "get", "remove"}, k \in KeyObjs :
            Begin(t, op, Shared, k, ValueOf(t)) /\ Track(t)
       /\ ConcFrame
    \/ (\E t \in Threads : getWeakCollRefs_Test(t) /\ Track(t)) /\ ConcFrame
    \/ (\E t \in Threads : getWeakCollRefs_New(t) /\ Track(t)) /\ ConcFrame
    \/ (\E t \in Threads : Lock(t) /\ Track(t)) /\ ConcFrame
    \/ (\E t \in Threads : SetStore(t) /\ Track(t)) /\ ConcFrame
    \/ (\E t \in Threads : AddScan(t) /\ Track(t)) /\ ConcFrame
    \/ (\E t \in Threads : AddAppend(t) /\ Track(t)) /\ ConcFrame
    \/ (\E t \in Threads : ReadRefs(t) /\ Track(t)) /\ ConcFrame
    \/ (\E t \in Threads : GetLoad(t) /\ Track(t)) /\ ConcFrame
    \/ (\E t \in Threads : RemoveDelete(t) /\ Track(t)) /\ ConcFrame
    \/ (\E t \in Threads : RemoveScan(t) /\ Track(t)) /\ ConcFrame
    \/ (\E t \in Threads : RemoveWrite(t) /\ Track(t)) /\ ConcFrame
    \/ (\E t \in Threads : Return(t) /\ Track(t)) /\ ConcFrame
    \/ (\E k \in KeyObjs : Drop(k)) /\ UNCHANGED gh /\ ConcFrame
    \/ (\E a \in Addrs : FinalizerStart(a)) /\ UNCHANGED gh /\ ConcFrame
    \/ (\E a \in Addrs : FinalizerLock(a)) /\ UNCHANGED gh /\ ConcFrame
    \/ (\E a \in Addrs : removePtr(a)) /\ UNCHANGED gh /\ ConcFrame
    \/ (\E a \in Addrs : FinalizerEnd(a)) /\ UNCHANGED gh /\ ConcFrame
    \/ (\E a \in Addrs : Free(a)) /\ UNCHANGED gh /\ ConcFrame

SpecConc == InitObjects /\ [][NextConc]_vars

----------------------------------------------------------------------------
(* Enumeration claims.                                                     *)

(* s lists some of t's elements, in t's order (neither repeats a name).    *)
IsSubSeq(s, t) ==
    /\ Range(s) \subseteq Range(t)
    /\ \A i, j \in 1..Len(s) : i < j => IndexOf(t, s[i]) < IndexOf(t, s[j])
IsPrefix(s, t) == Len(s) <= Len(t) /\ s = SubSeq(t, 1, Len(s))
(* The names the sequence in use has yielded from the object itself.       *)
OwnCount == Cardinality({i \in 1..Len(iter.from) : iter.from[i] = iter.root})
OwnOut == SubSeq(iter.out, 1, OwnCount)

(* C9 as stated: a sequence is a snapshot: whatever is done to the objects *)
(* after enumerate returned, the consumed sequence has yielded the names   *)
(* it would have yielded at the call.                                      *)
C9_SequenceIsSnapshot ==
    iter.st = "done" => iter.out = iter.expect

(* C9 amended: the snapshot is of the object's own key order.  The names   *)
(* a sequence yields from the object itself come first, are among the own  *)
(* keys at the call and in their order, so a key added afterwards is not   *)
(* yielded as an own key; no name is yielded twice; and a sequence         *)
(* consumed with no change to the objects yields exactly the names the     *)
(* objects list at the call.                                               *)
C9_KeyOrderIsSnapshot ==
    iter.st # "none" =>
        /\ NoDup(iter.out)
        /\ \A i \in 1..Len(iter.from) : iter.from[i] = iter.root <=> i <= OwnCount
        /\ IsSubSeq(OwnOut, iter.snap)
        /\ iter.muts = 0 => /\ IsPrefix(iter.out, iter.expect)
                            /\ iter.st = "done" => iter.out = iter.expect

(* A consumed sequence that yielded an own key of the call and not the     *)
(* key the object gained while it was in use.                              *)
C9_Witness ==
    /\ iter.st = "done"
    /\ iter.muts > 0
    /\ OwnCount > 0
    /\ \E n \in Names : /\ Present(iter.root, n)
                        /\ n \notin Range(iter.snap)
                        /\ n \notin Range(iter.out)

RECURSIVE Owner(_, _)
Owner(o, n) ==
    IF o = Nil THEN Nil
    ELSE IF Present(o, n) THEN o ELSE Owner(prototype[o], n)

(* What enumerate(false, true) yields in the current state.                *)
Yield(o) == Drain(enumerate(o, FALSE, TRUE))

EnumerateInOrder(o) ==
    LET s == Yield(o)
        k == Cardinality({n \in Names : Shown(o, n, FALSE)})
    IN  /\ NoDup(s)
        /\ k <= Len(s)
        /\ \A i \in 1..Len(s) : i <= k <=> Shown(o, s[i], FALSE)
        /\ \A i, j \in 1..Len(s) :
              i < j /\ Owner(o, s[i]) = Owner(o, s[j])
                 => IndexOf(propNames[Owner(o, s[i])], s[i])
                      < IndexOf(propNames[Owner(o, s[i])], s[j])

(* A step keeps the order of the keys an object keeps and puts a key the   *)
(* object gains (for the first time or again) last.                        *)
InsertionOrderKept(o) ==
    LET Kept(n) == Present(o, n) /\ values'[o][n].kind # "none"
        Gained(n) == ~Present(o, n) /\ values'[o][n].kind # "none"
    IN  /\ \A n, m \in Names :
              Kept(n) /\ Kept(m)
                 /\ IndexOf(propNames[o], n) < IndexOf(propNames[o], m)
              => IndexOf(propNames'[o], n) < IndexOf(propNames'[o], m)
        /\ \A n \in Names :
              Gained(n) => propNames'[o][Len(propNames'[o])] = n
        /\ Range(propNames'[o]) = {n \in Names : values'[o][n].kind # "none"}
        /\ NoDup(propNames'[o])

(* C10: enumerate(false, true) yields no name twice, the own enumerable    *)
(* keys before any inherited one, and each object's keys in the order of   *)
(* their latest insertion.                                                 *)
C10_EnumerateOrder ==
    /\ [](\A o \in EnumObjs : EnumerateInOrder(o))
    /\ [][\A o \in EnumObjs : InsertionOrderKept(o)]_vars

(* Two own keys in the order of their insertion, the first one also on the *)
(* prototype, which adds a key of its own.                                 *)
C10_Witness ==
    /\ Yield("o1") = <<"b", "a", "c">>
    /\ Present("o2", "b")
    /\ Yield("o2") = <<"c", "b">>

----------------------------------------------------------------------------
(* Weak-map claims.                                                        *)

(* C1: between the main context's operations, for every live key object   *)
(* that has a registry and every weak map, the map's storage holds an      *)
(* entry under the registry's token exactly when the registry lists the    *)
(* map, and the registry lists no map twice.                               *)
C1_StorageMatchesRegistry ==
    pc[Main] = "idle" =>
        \A k \in KeyObjs :
            reach[k] /\ weakColls[k] # Nil =>
                /\ NoDup(regs[weakColls[k]].colls)
                /\ \A m \in Maps :
                      data[m][weakColls[k]] # Nil
                         <=> m \in Range(regs[weakColls[k]].colls)

(* A live key left in the second map alone after a delete from the first   *)
(* (the slice still has room for two), stored under the address the        *)
(* finalizer is clearing for another, unreachable key at that moment.      *)
C1_Witness ==
    /\ pc[Main] = "idle"
    /\ reach["k1"] /\ weakColls["k1"] # Nil
    /\ regs[weakColls["k1"]].colls = <<"m2">>
    /\ regs[weakColls["k1"]].cap = 2
    /\ data["m2"][weakColls["k1"]] = "v2"
    /\ ~reach["k2"] /\ weakColls["k2"] # Nil
    /\ regs[weakColls["k2"]].st = "final"
    /\ Len(regs[weakColls["k2"]].todo) = 1

(* The value a map holds for a key, and what some sequential order of the  *)
(* completed sets and deletes of that key can leave there.                 *)
StoredFor(m, k) == IF weakColls[k] = Nil THEN Nil ELSE data[m][weakColls[k]]
Possible(m, k) ==
    gh.sets[m][k]
       \cup (IF gh.removed[m][k] \/ gh.sets[m][k] = {} THEN {Nil} ELSE {})
Quiescent == \A t \in Threads : pc[t] = "idle"
ConsistentFor(k) ==
    /\ StoredFor(Shared, k) \in Possible(Shared, k)
    /\ weakColls[k] # Nil =>
          (StoredFor(Shared, k) # Nil
              <=> Shared \in Range(regs[weakColls[k]].colls))

(* C2 as stated: whatever two threads do on one weak map, also on the same *)
(* key, once all operations have completed the storage is what some        *)
(* sequential order of them leaves and each live key's registry lists the  *)
(* map exactly when the storage holds an entry under the key's token.      *)
C2_ConcurrentUseConsistent ==
    Quiescent => \A k \in KeyObjs : reach[k] => ConsistentFor(k)

(* C2 amended: the same, provided no two threads ever worked on the same   *)
(* key object at the same time.                                            *)
C2_ConsistentOnDistinctKeys ==
    Quiescent /\ ~gh.overlap => \A k \in KeyObjs : reach[k] => ConsistentFor(k)

(* Two threads have worked at the same time, never on the same key: one    *)
(* key holds a thread's value, and the other key, set and then deleted by  *)
(* the other thread, is unreachable and being finalized.                   *)
C2_Witness ==
    /\ Quiescent
    /\ gh.parallel /\ ~gh.overlap
    /\ reach["k1"] /\ StoredFor(Shared, "k1") = "v2"
    /\ gh.sets[Shared]["k2"] = {"v1"}
    /\ gh.removed[Shared]["k2"]
    /\ ~reach["k2"] /\ weakColls["k2"] # Nil
    /\ regs[weakColls["k2"]].st = "final"

(* The steps of the cleanup callback of the record at address a.           *)
CallbackEnds(a) == regs[a].st = "final" /\ regs'[a].st = "finalized"
CallbackStep(a) == regs[a].st = "final" /\ regs'[a] # regs[a]

(* C11: when the cleanup callback of a registry completes, no collection   *)
(* registered in it holds an entry under its token and its list is empty;  *)
(* no step of the callback touches an entry under another token; and the   *)
(* callback runs once per registry: it starts on a live record only and a  *)
(* finalized record is not finalized again before its memory is freed.     *)
C11_CleanupRemovesItsEntriesOnce ==
    [][\A a \in Addrs :
          /\ CallbackEnds(a) =>
                /\ \A m \in Range(regs[a].colls) : data'[m][a] = Nil
                /\ regs'[a].colls = <<>>
          /\ CallbackStep(a) =>
                \A m \in Maps : \A b \in Addrs \ {a} : data'[m][b] = data[m][b]
          /\ regs'[a].st = "final" => regs[a].st \in {"live", "final"}
          /\ regs[a].st = "finalized" => regs'[a].st \in {"finalized", "free"}
      ]_vars

(* The callback of a record listing both maps has visited them and is      *)
(* about to complete, while both maps hold an entry under the other token. *)
C11_Witness ==
    /\ regs["r1"].st = "final"
    /\ Len(regs["r1"].colls) = 2
    /\ regs["r1"].todo = <<>>
    /\ data["m1"]["r2"] # Nil /\ data["m2"]["r2"] # Nil

(* C12: once a key object with a registry is unreachable, eventually no   *)
(* map holds an entry under the registry's token; and an address is handed *)
(* to a new registry only when no map holds an entry under it.             *)
(* A thread is between wm.Lock() and wm.Unlock(): at its access of wm.data. *)
InSection(t) == pc[t] \in {"set_store", "get_load", "has_load", "remove_delete"}
FinalizerIn(m) ==
    \E a \in Addrs : /\ regs[a].st = "final"
                      /\ regs[a].todo # <<>>
                      /\ Head(regs[a].todo) = m

(* C13: every read and write of a weak map's storage happens while the one *)
(* that makes it holds the map's lock: a thread at its access of wm.data   *)
(* holds the lock of that map, a lock is held only by a thread at such an  *)
(* access or by the finalizer inside removePtr on that map (so no two      *)
(* accesses of one map are in progress at once and no operation returns    *)
(* with a lock), and a step that changes a map's storage starts with the   *)
(* lock held and ends with it released.                                    *)
C13_StorageAccessUnderLock ==
    /\ [](\A t \in Threads : InSection(t) => mu[loc[t].m] = t)
    /\ [](\A m \in Maps :
            /\ mu[m] \in Threads => InSection(mu[m]) /\ loc[mu[m]].m = m
            /\ mu[m] = Finalizer => FinalizerIn(m)
            /\ mu[m] \in Threads \cup {Finalizer, Nil})
    /\ [][\A m \in Maps :
            data'[m] # data[m] => mu[m] # Nil /\ mu'[m] = Nil]_vars

(* The main context waits at wm.Lock() of a get while the finalizer is     *)
(* inside removePtr on the same map.                                       *)
C13_Witness ==
    /\ pc[Main] = "get_lock"
    /\ mu[loc[Main].m] = Finalizer
    /\ data[loc[Main].m][loc[Main].refs] # Nil

(* The value the completed sets and deletes leave in map m for key k, and  *)
(* the same with the call that has its result and has not yet returned.    *)
Latest(m, k) == IF gh.sets[m][k] = {} THEN Nil ELSE CHOOSE v \in gh.sets[m][k] : TRUE
LatestWith(op, m, k) ==
    IF op.m = m /\ op.key = k /\ op.op = "set" THEN op.val
    ELSE IF op.m = m /\ op.key = k /\ op.op = "remove" THEN Nil
    ELSE Latest(m, k)
Registered(m, k) ==
    weakColls[k] # Nil /\ m \in Range(regs[weakColls[k]].colls)

(* C14: for the calls of the main context on live key objects, in any      *)
(* order: get returns the value of the latest set of that map and key that *)
(* no later delete followed, and nothing otherwise; has returns true       *)
(* exactly in the first case; delete returns true exactly when such an     *)
(* entry existed; and when a call has its result, every map holds for      *)
(* every live key exactly what the calls so far leave there and the key's  *)
(* registry lists exactly the maps that hold an entry for it, so a delete  *)
(* that found no entry unregisters nothing and the entries of other keys   *)
(* and other maps stay as they were.                                       *)
C14_MapOperationsSequential ==
    LET op == loc[Main]
    IN  /\ pc[Main] = "done" /\ op.op = "get" => op.ret = Latest(op.m, op.key)
        /\ pc[Main] = "done" /\ op.op = "has" =>
              op.ret = (Latest(op.m, op.key) # Nil)
        /\ pc[Main] = "done" /\ op.op = "remove" =>
              op.ret = (Latest(op.m, op.key) # Nil)
        /\ pc[Main] = "done" =>
              \A m \in Maps : \A k \in KeyObjs :
                 reach[k] => /\ StoredFor(m, k) = LatestWith(op, m, k)
                             /\ Registered(m, k) <=> LatestWith(op, m, k) # Nil
        /\ pc[Main] = "idle" =>
              \A m \in Maps : \A k \in KeyObjs :
                 reach[k] => /\ StoredFor(m, k) = Latest(m, k)
                             /\ Registered(m, k) <=> Latest(m, k) # Nil

(* A delete has found the entry of k1 in m1 and returns true, while m2     *)
(* keeps its entry for k1 and m1 its entry for k2.                         *)
C14_Witness ==
    /\ pc[Main] = "done"
    /\ loc[Main].op = "remove" /\ loc[Main].m = "m1" /\ loc[Main].key = "k1"
    /\ loc[Main].ret = TRUE
    /\ gh.sets["m1"]["k1"] = {"v2"}
    /\ reach["k2"] /\ StoredFor("m1", "k2") = "v1"
    /\ StoredFor("m2", "k1") = "v1"
    /\ ~Registered("m1", "k1") /\ Registered("m2", "k1")

(* The entries of the list before position n: the value the last of them  *)
(* with key k gives, and the first entry whose key is no object.           *)
RECURSIVE Committed(_, _, _)
Committed(args, n, k) ==
    IF n <= 1 THEN Nil
    ELSE IF args[n - 1].k = k THEN args[n - 1].v
    ELSE Committed(args, n - 1, k)
Malformed(args) == {i \in 1..Len(args) : toObject(args[i].k) = "TypeError"}
FirstMalformed(args) ==
    CHOOSE i \in Malformed(args) : \A j \in Malformed(args) : i <= j

(* C15 as stated: a construction that raised the type error has committed  *)
(* nothing: no key object's registry lists the new map and the new map's   *)
(* storage holds no entry.                                                 *)
C15_FailedConstructionCommitsNothing ==
    ctor.st = "thrown" =>
        /\ \A a \in Addrs : data[ctor.m][a] = Nil
        /\ \A a \in Addrs : ctor.m \notin Range(regs[a].colls)

(* C15 amended: a construction raises the type error exactly when the list *)
(* has an entry whose key is no object, it raises it at the first such     *)
(* entry, and it has then committed the entries before that one and none   *)
(* after it: for every key object still live the new map holds what the    *)
(* preceding entries set for it and the key's registry lists the new map   *)
(* exactly when they set something.  A construction that returns has       *)
(* committed every entry.                                                  *)
C15_FailedConstructionKeepsPrefix ==
    /\ ctor.st = "thrown" =>
          /\ ctor.err = "TypeError"
          /\ Malformed(ctor.args) # {}
          /\ ctor.at = FirstMalformed(ctor.args)
    /\ ctor.st = "returned" =>
          /\ Malformed(ctor.args) = {}
          /\ ctor.at = Len(ctor.args) + 1
    /\ ctor.st \in {"thrown", "returned"} =>
          \A k \in KeyObjs :
             reach[k] =>
                /\ StoredFor(ctor.m, k) = Committed(ctor.args, ctor.at, k)
                /\ Registered(ctor.m, k) <=> Committed(ctor.args, ctor.at, k) # Nil

(* The construction from [[k1, v1], [undefined, v1], [k2, v2]] has raised   *)
(* the type error: the new map holds v1 for k1 and nothing for k2.         *)
C15_Witness ==
    /\ ctor.st = "thrown"
    /\ ctor.args = <<[k |-> "k1", v |-> "v1"], [k |-> Undefined, v |-> "v1"],
                     [k |-> "k2", v |-> "v2"]>>
    /\ reach["k1"] /\ reach["k2"]
    /\ StoredFor(NewMap, "k1") = "v1" /\ Registered(NewMap, "k1")
    /\ StoredFor(NewMap, "k2") = Nil /\ ~Registered(NewMap, "k2")

(* The steps of a set that have called getWeakCollRefs.                    *)
HasRefs(t) == pc[t] \in {"set_lock", "set_store", "set_add", "set_append"}

(* C16: a key object's registry is made once, at its first set: a live     *)
(* key that has a registry keeps it, at the same address, with every step; *)
(* a set that has called getWeakCollRefs holds the registry of its key,    *)
(* which is a live record; two key objects never have their registries at  *)
(* the same address; and a get that returns a value, or a has that returns *)
(* true, was called with a key that a completed set stored in that map.    *)
C16_RegistryStableAndUnique ==
    /\ [][\A k \in KeyObjs :
            reach[k] /\ weakColls[k] # Nil => weakColls'[k] = weakColls[k]]_vars
    /\ [](\A t \in Threads :
            HasRefs(t) => /\ loc[t].refs = weakColls[loc[t].key]
                          /\ regs[loc[t].refs].st = "live")
    /\ [](\A k1, k2 \in KeyObjs :
            k1 # k2 /\ weakColls[k1] # Nil => weakColls[k1] # weakColls[k2])
    /\ [](pc[Main] = "done" /\ loc[Main].op = "get" /\ loc[Main].ret # Nil
          => gh.sets[loc[Main].m][loc[Main].key] # {})
    /\ [](pc[Main] = "done" /\ loc[Main].op = "has" /\ loc[Main].ret = TRUE
          => gh.sets[loc[Main].m][loc[Main].key] # {})

(* A second set on k1 has got the registry k1 already had, while k2, live, *)
(* has its own registry and an entry in the same map.                      *)
C16_Witness ==
    /\ pc[Main] = "set_lock" /\ loc[Main].key = "k1" /\ loc[Main].m = "m1"
    /\ gh.sets["m1"]["k1"] # {}
    /\ loc[Main].refs = weakColls["k1"]
    /\ reach["k2"] /\ weakColls["k2"] # Nil
    /\ StoredFor("m1", "k2") # Nil

(* A capacity with which remove rebuilds a list, and one with which it     *)
(* moves the last element.                                                 *)
RebuildCap(colls) == 4 * (Len(colls) + ShrinkFloor)
SwapCap(colls) == Len(colls)

(* C20: the list of a registry never holds a collection twice; r.remove(c) *)
(* leaves the collections the list held except c, each once, on the path   *)
(* that rebuilds as on the path that moves the last element, so nothing    *)
(* changes in the set when c is not in the list; and on the list of any    *)
(* call the two paths leave the same set.                                  *)
C20_RemoveLeavesTheRest ==
    /\ NoDup(regs[Registry].colls)
    /\ loc[Main].op = "remove" =>
          LET colls == loc[Main].colls
              c == loc[Main].m
          IN  /\ Range(regs[Registry].colls) = Range(colls) \ {c}
              /\ Range(removeColl(colls, RebuildCap(colls), c).colls)
                    = Range(removeColl(colls, SwapCap(colls), c).colls)
              /\ NoDup(removeColl(colls, RebuildCap(colls), c).colls)
              /\ NoDup(removeColl(colls, SwapCap(colls), c).colls)
    /\ loc[Main].op = "add" =>
          Range(regs[Registry].colls) = Range(loc[Main].colls) \cup {loc[Main].m}

(* A remove has rebuilt a list of four collections in a slice of capacity  *)
(* twenty without the second of them.                                      *)
C20_Witness ==
    /\ loc[Main].op = "remove"
    /\ loc[Main].cap = 20 /\ Len(loc[Main].colls) = 4
    /\ loc[Main].m = loc[Main].colls[2]
    /\ regs[Registry].cap = 4
    /\ regs[Registry].colls =
          <<loc[Main].colls[1], loc[Main].colls[3], loc[Main].colls[4]>>

(* A step of the main context, and the operation the step belongs to.      *)
MainSteps == pc'[Main] # pc[Main]
MainOp == IF pc[Main] = "idle" THEN loc'[Main].op ELSE loc[Main].op
MainKey == IF pc[Main] = "idle" THEN loc'[Main].key ELSE loc[Main].key

(* C23: a step of get, has or delete gives no key object a registry and    *)
(* makes no record; a step of get or has changes no registry and no map's  *)
(* storage; a step of a delete on a key object without a registry changes  *)
(* none either; and on such a key get returns nothing, has and delete      *)
(* return false.                                                           *)
C23_ReadsMakeNoRegistry ==
    /\ [][MainSteps /\ MainOp \in {"get", "has", "remove"} =>
            /\ weakColls' = weakColls
            /\ reach' = reach
            /\ \A a \in Addrs : regs'[a].st = regs[a].st
            /\ MainOp \in {"get", "has"} => regs' = regs /\ data' = data
            /\ weakColls[MainKey] = Nil => regs' = regs /\ data' = data
         ]_vars
    /\ [](pc[Main] = "done" /\ weakColls[loc[Main].key] = Nil =>
            /\ loc[Main].op = "get" => loc[Main].ret = Nil
            /\ loc[Main].op \in {"has", "remove"} => loc[Main].ret = FALSE)

(* A delete on a key object that has no registry has returned false, while *)
(* the other key object has its registry and an entry in that map.         *)
C23_Witness ==
    /\ pc[Main] = "done" /\ loc[Main].op = "remove"
    /\ loc[Main].key = "k1" /\ loc[Main].m = "m1"
    /\ weakColls["k1"] = Nil
    /\ loc[Main].ret = FALSE
    /\ reach["k2"] /\ StoredFor("m1", "k2") # Nil
    /\ \E a \in Addrs : regs[a].st = "free"

RECURSIVE AncestorShows(_, _)
(* Whether p or an object up its prototype links holds an enumerable       *)
(* property n.                                                             *)
AncestorShows(p, n) ==
    IF p = Nil THEN FALSE
    ELSE Shown(p, n, FALSE) \/ AncestorShows(prototype[p], n)
HidesOwn(o, n) == Present(o, n) /\ ~values[o][n].enumerable

(* C24: in enumerate(false, true) a non-enumerable own property shadows:   *)
(* when an object has a non-enumerable own property under a name and an    *)
(* ancestor, however many links up, has an enumerable property under it,   *)
(* the sequence of the object does not yield the name.                     *)
C24_NonEnumerableShadows ==
    \A o \in Objs : \A n \in Names :
       HidesOwn(o, n) /\ AncestorShows(prototype[o], n)
          => n \notin Range(Yield(o))

(* The object hides b, its prototype has no b, the prototype's prototype   *)
(* shows a and b, and the sequence of the object yields a alone.           *)
C24_Witness ==
    /\ prototype["o1"] = "o2" /\ prototype["o2"] = "o3"
    /\ HidesOwn("o1", "b") /\ ~Present("o1", "a")
    /\ ~Present("o2", "b") /\ ~Present("o2", "a")
    /\ Shown("o3", "b", FALSE) /\ Shown("o3", "a", FALSE)
    /\ propNames["o3"] = <<"b", "a">>
    /\ Yield("o1") = <<"a">>

NoEntryUnder(a) == \A m \in Maps : data[m][a] = Nil
Abandoned(k, a) == ~reach[k] /\ weakColls[k] = a /\ regs[a].st = "live"
C12_NoZombieEntry ==
    /\ \A k \in KeyObjs : \A a \in Addrs : Abandoned(k, a) ~> NoEntryUnder(a)
    /\ [][\A a \in Addrs :
             regs[a].st = "free" /\ regs'[a].st = "live" => NoEntryUnder(a)]_vars

(* The callback of an unreachable key's record, which listed one map, has  *)
(* removed its entry, while the live key has an entry in that map.         *)
C12_Witness ==
    /\ ~reach["k1"] /\ weakColls["k1"] = "r1"
    /\ regs["r1"].st = "final"
    /\ regs["r1"].colls = <<"m1">> /\ regs["r1"].todo = <<>>
    /\ NoEntryUnder("r1")
    /\ reach["k2"] /\ weakColls["k2"] = "r2" /\ data["m1"]["r2"] # Nil

----------------------------------------------------------------------------
(* Reading the record of an operation.                                     *)

(* The stored own value under key n in an object state.                    *)
Own(st, n) == IF IsSym(n) THEN st.syms[n] ELSE st.vals[n]
Keys == Names \cup Syms
Before == last.pre
After == ObjState(last.obj)
NonConfigurable(p) == p.kind = "prop" /\ ~p.configurable
Rejected ==
    /\ last.err = typeErrorResult(last.throw)
    /\ last.ret = (IF last.throw THEN Nil ELSE "false")
    /\ After = Before

PutRejected ==
    /\ last.err = typeErrorResult(last.throw)
    /\ last.call = NoCall
    /\ After = Before

RECURSIVE Inherited(_, _)
(* The stored property under key n of the nearest object that has one,     *)
(* from p up the prototype links.                                          *)
Inherited(p, n) ==
    IF p = Nil THEN Absent
    ELSE IF StoredOwn(p, n).kind # "none" THEN StoredOwn(p, n)
    ELSE Inherited(prototype[p], n)

(* What the key of the recorded operation resolved to before it: the own   *)
(* property, otherwise the nearest ancestor's.                             *)
Resolved ==
    IF Own(Before, last.key).kind # "none" THEN Own(Before, last.key)
    ELSE Inherited(Before.proto, last.key)

ReadOnlyData(p) == p.kind = "prop" /\ ~p.accessor /\ ~p.writable
WritableData(p) == p.kind = "plain" \/ (p.kind = "prop" /\ ~p.accessor /\ p.writable)

(* C3: put on a non-extensible object that has no own property under the   *)
(* key never adds an own property; unless an inherited accessor takes the  *)
(* assignment, the put is rejected, whatever the prototype chain holds     *)
(* (a writable data property of an ancestor included).                     *)
C3_NonExtensibleGainsNothing ==
    (last.op = "put" /\ ~Before.ext /\ Own(Before, last.key).kind = "none") =>
        /\ After.vals = Before.vals
        /\ After.names = Before.names
        /\ After.syms = Before.syms
        /\ (last.key # ProtoName /\ last.call = NoCall) => PutRejected

(* C4, as stated: a put whose key resolves (own property first, otherwise  *)
(* the nearest ancestor that has it) to a non-writable data property       *)
(* changes nothing and raises a type error exactly when throw is set.      *)
C4_ReadOnlyNeverRewritten ==
    last.op = "put" => (ReadOnlyData(Resolved) => PutRejected)

(* C4, amended: the same for every put except that of the prototype        *)
(* pseudo-key on a receiver with no own stored property of that name,      *)
(* which goes to the prototype link without consulting the ancestors.      *)
C4_ReadOnlyNeverRewrittenButPseudoKey ==
    ( /\ last.op = "put"
      /\ ~(last.key = ProtoName /\ Own(Before, last.key).kind = "none") )
    => (ReadOnlyData(Resolved) => PutRejected)

C4_Witness ==
    /\ last.op = "put"
    /\ last.key \in PutKeys
    /\ ReadOnlyData(Own(Before, last.key))
    /\ WritableData(Inherited(Before.proto, last.key))
    /\ last.throw
    /\ last.err = "TypeError"
    /\ After = Before

RECURSIVE ChainHas(_, _, _)
(* Whether o is met within k prototype links from p.                       *)
ChainHas(p, o, k) ==
    IF p = Nil \/ k = 0 THEN FALSE
    ELSE IF p = o THEN TRUE
    ELSE ChainHas(prototype[p], o, k - 1)

Acyclic == \A o \in Objs : ~ChainHas(prototype[o], o, Cardinality(Objs))

(* The recorded operation asked for a prototype whose chain holds the      *)
(* object itself.                                                          *)
AsksForCycle ==
    /\ \/ last.op = "setProto"
       \/ /\ last.op = "put" /\ last.key = ProtoName
          /\ Own(Before, ProtoName).kind = "none"
    /\ last.val \in Objs
    /\ ChainHas(last.val, last.obj, Cardinality(Objs))

(* C8, as stated: the prototype chain is acyclic in every reachable state, *)
(* and an assignment that would close a cycle (the object itself, or an    *)
(* object whose chain leads back to it) fails with the cyclic-prototype    *)
(* error and leaves the prototype as it was.                               *)
C8_CycleFailsWithCyclicError ==
    /\ Acyclic
    /\ AsksForCycle => (last.err = ErrCyclic /\ After.proto = Before.proto)

(* C8, amended: the chain is always acyclic, and such an assignment always *)
(* fails and leaves the prototype as it was: with the cyclic-prototype     *)
(* error on an extensible object, with the not-extensible error (checked   *)
(* first) on a non-extensible one.                                         *)
C8_AcyclicAndCycleFails ==
    /\ Acyclic
    /\ AsksForCycle =>
          /\ last.err = (IF Before.ext THEN ErrCyclic ELSE ErrNotExtensible)
          /\ After.proto = Before.proto

C8_Witness ==
    /\ last.op = "setProto"
    /\ last.err = ErrCyclic
    /\ \E a, b \in Objs :
          /\ a # b /\ a # last.obj /\ b # last.obj
          /\ last.val = a
          /\ prototype[a] = b
          /\ prototype[b] = last.obj

(* C17: a put of the prototype pseudo-key on an object with no own stored  *)
(* property of that name leaves the property storage, the key order, the   *)
(* symbol storage and the extensible flag as they were and calls no        *)
(* accessor.  With an object or null it does what setProto does: nothing   *)
(* when that is the prototype already; otherwise it fails with the         *)
(* not-extensible error on a non-extensible object and with the cyclic     *)
(* error when the object is on the new prototype's chain, the prototype    *)
(* link staying as it was; otherwise the link becomes the value.  With any *)
(* other value it changes nothing.                                         *)
C17_PseudoKeyPutOnlyMovesLink ==
    ( /\ last.op = "put" /\ last.key = ProtoName
      /\ Own(Before, ProtoName).kind = "none" )
    => /\ After.vals = Before.vals
       /\ After.names = Before.names
       /\ After.syms = Before.syms
       /\ After.ext = Before.ext
       /\ last.call = NoCall
       /\ IF last.val \in Objs \cup {Null}
          THEN LET p == IF last.val = Null THEN Nil ELSE last.val
               IN  IF p = Before.proto
                   THEN After.proto = Before.proto /\ last.err = "none"
                   ELSE IF ~Before.ext
                   THEN After.proto = Before.proto /\ last.err = ErrNotExtensible
                   ELSE IF ChainHas(p, last.obj, Cardinality(Objs))
                   THEN After.proto = Before.proto /\ last.err = ErrCyclic
                   ELSE After.proto = p /\ last.err = "none"
          ELSE After = Before /\ last.err = "none"

(* The put gave an object that holds properties another prototype.         *)
C17_Witness ==
    /\ last.op = "put" /\ last.key = ProtoName
    /\ Own(Before, ProtoName).kind = "none"
    /\ Before.names # <<>>
    /\ Before.proto \in Objs
    /\ last.val \in Objs
    /\ After.proto = last.val /\ After.proto # Before.proto

RECURSIVE Distance(_, _, _)
(* The number of prototype links from p up to the nearest object that      *)
(* stores key n, counted from k.                                            *)
Distance(p, n, k) ==
    IF p = Nil THEN 0
    ELSE IF StoredOwn(p, n).kind # "none" THEN k
    ELSE Distance(prototype[p], n, k + 1)
Accessor(p) == p.kind = "prop" /\ p.accessor

(* C18: a get or a put that calls an accessor calls it with the object the *)
(* operation was called on as receiver; and when the key, not an own       *)
(* property of that object, resolves to an accessor property of an         *)
(* ancestor, however many links up, a get calls its getter and a put its   *)
(* setter (if it has one) with that object as receiver and, for the put,   *)
(* the value as argument.                                                  *)
C18_AccessorGetsOriginalReceiver ==
    last.op \in {"get", "put"} =>
        /\ last.call # NoCall => last.call.this = last.obj
        /\ ( /\ last.key \in PutKeys
             /\ Own(Before, last.key).kind = "none"
             /\ Accessor(Inherited(Before.proto, last.key)) )
           => LET p == Inherited(Before.proto, last.key)
              IN  /\ last.op = "get" /\ p.getterFunc # Nil =>
                        last.call = Call(p.getterFunc, last.obj, Nil)
                  /\ last.op = "put" /\ p.setterFunc # Nil =>
                        last.call = Call(p.setterFunc, last.obj, last.val)

(* A get on an object found the getter two prototype links up.             *)
C18_Witness ==
    /\ last.op = "get"
    /\ Own(Before, last.key).kind = "none"
    /\ Distance(Before.proto, last.key, 1) = 2
    /\ Accessor(Inherited(Before.proto, last.key))
    /\ last.call.fn = "f1" /\ last.call.this = last.obj

(* C19: delete(key, throw) on an object with no own stored property under *)
(* the key returns true and changes nothing; on a non-configurable own     *)
(* property it returns false, or raises a type error when throw is set,    *)
(* and changes nothing; otherwise it returns true, the property is gone    *)
(* from the storage and the key from the key order, and every other own    *)
(* property, the order of the other keys, the prototype and the extensible *)
(* flag are as before.                                                     *)
C19_DeleteSemantics ==
    last.op = "delete" =>
        LET p == Own(Before, last.key)
        IN  IF p.kind = "none"
            THEN last.ret = "true" /\ last.err = "none" /\ After = Before
            ELSE IF NonConfigurable(p) THEN Rejected
            ELSE /\ last.ret = "true" /\ last.err = "none"
                 /\ Own(After, last.key).kind = "none"
                 /\ After.names = SelectSeq(Before.names, LAMBDA x : x # last.key)
                 /\ \A m \in Keys \ {last.key} : Own(After, m) = Own(Before, m)
                 /\ After.proto = Before.proto
                 /\ After.ext = Before.ext

(* The middle one of three keys was deleted, the last one being            *)
(* non-configurable.                                                       *)
C19_Witness ==
    /\ last.op = "delete" /\ last.ret = "true"
    /\ Len(Before.names) = 3
    /\ last.key = Before.names[2]
    /\ NonConfigurable(Own(Before, Before.names[3]))
    /\ After.names = <<Before.names[1], Before.names[3]>>
    /\ Own(After, "@s").kind # "none"

(* The string keys under which an object stores a value.                   *)
StoredNames(o) == {n \in Names : values[o][n].kind # "none"}

(* C21: whatever put, defineOwnProperty, delete and _putProp have done to  *)
(* an object, its key order lists exactly the string keys under which it   *)
(* stores a value, each once.                                              *)
C21_KeyOrderMatchesStorage ==
    \A o \in Objs :
       /\ NoDup(propNames[o])
       /\ Range(propNames[o]) = StoredNames(o)

(* A non-extensible object with its prototype, which holds one of the      *)
(* names: the object stores the pseudo-key, then the name the prototype    *)
(* holds too, and the other name was deleted.                              *)
C21_Witness ==
    /\ ~extensible["o1"] /\ prototype["o1"] = "o2"
    /\ propNames["o1"] = <<ProtoName, "a">>
    /\ values["o1"]["a"].kind = "plain"
    /\ values["o1"][ProtoName].kind = "prop"
    /\ propNames["o2"] = <<"a">>

(* C22: a defineOwnProperty that is rejected, returning false or raising   *)
(* the type error, leaves the object as it was: the stored properties with *)
(* their values, getters, setters and attributes, the key order, the       *)
(* symbol storage, the prototype and the extensible flag; and it is the    *)
(* rejected calls that do not return true.                                 *)
C22_RejectedDefineChangesNothing ==
    (last.op = "defineOwnProperty" /\ last.ret # "true") =>
        /\ After = Before
        /\ last.err = typeErrorResult(last.throw)
        /\ last.throw <=> last.ret = Nil

(* A request for another getter on a non-configurable accessor property    *)
(* that has a setter was rejected with the type error.                     *)
C22_Witness ==
    /\ last.op = "defineOwnProperty" /\ last.throw /\ last.err = "TypeError"
    /\ NonConfigurable(Own(Before, last.key))
    /\ Own(Before, last.key).accessor
    /\ Own(Before, last.key).setterFunc = "f1"
    /\ Own(Before, last.key).getterFunc = Nil
    /\ last.descr.Getter = "f1"
    /\ last.descr.Enumerable = FLAG_NOT_SET
    /\ After = Before

(* C5: defineOwnProperty never changes the kind (data or accessor) of an   *)
(* existing non-configurable property: a request that names a getter or a  *)
(* setter for a non-configurable data property, or a value or writable for *)
(* a non-configurable accessor property, is rejected.                      *)
C5_KindOfNonConfigurableKept ==
    last.op = "defineOwnProperty" =>
        LET p == Own(Before, last.key)
            q == Own(After, last.key)
            d == last.descr
            switches ==
                \/ ~p.accessor /\ (d.Getter # Nil \/ d.Setter # Nil)
                \/ p.accessor /\ (d.Value # Nil \/ d.Writable # FLAG_NOT_SET)
        IN NonConfigurable(p) =>
              /\ q.kind = "prop" /\ q.accessor = p.accessor
              /\ switches => Rejected

(* C6: once an own property is non-configurable, no put, delete or         *)
(* defineOwnProperty makes it configurable, changes its enumerable         *)
(* attribute or removes it; a defineOwnProperty that asks for              *)
(* configurable=true or for another enumerable value is rejected, and so   *)
(* is a delete (it returns false, or raises when throw is set).            *)
C6_NonConfigurableIsPermanent ==
    last.op \in {"put", "delete", "defineOwnProperty"} =>
        \A n \in Keys :
            LET p == Own(Before, n)
                q == Own(After, n)
                d == last.descr
            IN NonConfigurable(p) =>
                  /\ NonConfigurable(q) /\ q.enumerable = p.enumerable
                  /\ ( /\ last.op = "defineOwnProperty" /\ n = last.key
                       /\ \/ d.Configurable = FLAG_TRUE
                          \/ /\ d.Enumerable # FLAG_NOT_SET
                             /\ FlagBool(d.Enumerable) # p.enumerable )
                     => Rejected
                  /\ (last.op = "delete" /\ n = last.key) => Rejected

C6_Witness ==
    /\ last.op = "defineOwnProperty"
    /\ NonConfigurable(Own(Before, last.key))
    /\ last.descr.Configurable = FLAG_TRUE
    /\ last.ret = "false"
    /\ NonConfigurable(Own(After, last.key))

(* C7: on a non-configurable, non-writable data property with value v, a   *)
(* defineOwnProperty whose descriptor carries a value identical to v and   *)
(* changes no attribute succeeds and leaves the property's descriptor as   *)
(* it was, and doing it again changes nothing; one whose descriptor        *)
(* carries a value that is not identical to v is rejected.                 *)
ChangesNoAttribute(p, d) ==
    /\ d.Writable # FLAG_NOT_SET => FlagBool(d.Writable) = p.writable
    /\ d.Enumerable # FLAG_NOT_SET => FlagBool(d.Enumerable) = p.enumerable
    /\ d.Configurable # FLAG_NOT_SET => FlagBool(d.Configurable) = p.configurable
    /\ d.Getter = Nil /\ d.Setter = Nil

Frozen(p) == NonConfigurable(p) /\ ~p.accessor /\ ~p.writable

C7_FrozenValueRedefine ==
    last.op = "defineOwnProperty" =>
        LET p == Own(Before, last.key)
            q == Own(After, last.key)
            d == last.descr
            again == defineOwnProperty(last.obj, last.key, d, last.throw)
        IN Frozen(p) =>
              /\ (d.Value # Nil /\ SameAs(d.Value, p.value) /\ ChangesNoAttribute(p, d))
                    => /\ last.ret = "true" /\ last.err = "none"
                       /\ reify(q) = reify(p)
                       /\ After.names = Before.names
                       /\ again.ok
                       /\ again.vals = After.vals /\ again.syms = After.syms
                       /\ again.names = After.names
              /\ (d.Value # Nil /\ ~SameAs(d.Value, p.value)) => Rejected

C7_Witness ==
    /\ last.op = "defineOwnProperty"
    /\ Frozen(Own(Before, last.key))
    /\ last.descr.Value # Nil
    /\ SameAs(last.descr.Value, Own(Before, last.key).value)
    /\ ChangesNoAttribute(Own(Before, last.key), last.descr)
    /\ last.ret = "true"

====
